---------------------------- MODULE Spec2Model ----------------------------
(***************************************************************************)
(* State-machine model of the SFU core: the per-client signaling state     *)
(* machine and its operation queue (src/room_stats.go, the Client part),   *)
(* the client lifecycle and the track fan-out of the room                  *)
(* (src/unnamed/part_000, the SFU part).                                   *)
(*                                                                         *)
(* The peer connection is an external library: each of its calls is        *)
(* modelled by the outcomes the code distinguishes (nil or an error), and  *)
(* its signaling state by the offer/answer state machine.                  *)
(*                                                                         *)
(* The queue type itself (NewQueue, Push and the consumer) is not part of  *)
(* the sources; it is modelled from section 4.1 of the specification.      *)
(***************************************************************************)
EXTENDS Integers, Sequences, FiniteSets, TLC

(***************************************************************************)
(* Bounds of the model.                                                    *)
(***************************************************************************)
\* longest operation queue of one client
MaxQueue == 2
\* number of Negotiate calls made on one client
MaxNegotiate == 2
\* number of ICE candidates per direction and client
MaxCandidates == 2
\* largest number of tracks carried by one remote offer
MaxOfferTracks == 2
\* number of packets the reader loops hand to one simulcast client track
MaxPackets == 3
\* number of frames the source produces
MaxClock == 1
\* RTP clock ticks between two frames
TsStep == 3000
\* number of callbacks registered with OnTrackEnded
MaxCallbacks == 3
\* number of OnChanged subscriptions of one Metadata
MaxSubscriptions == 3
\* number of Set and Delete calls on one Metadata
MaxChanges == 3

ClientIDs == {"c1", "c2"}
\* the client whose signaling is explored by SpecSig
SigClients == {"c1"}
TrackPool == { [stream |-> "s1", id |-> "t1"], [stream |-> "s1", id |-> "t2"] }
StopCallers == {"user", "timer"}
\* the clients that publish tracks in the room explored by SpecSfu
Publishers == {"c1"}

(***************************************************************************)
(* Program constants.                                                      *)
(***************************************************************************)
ClientStateNew == 0
ClientStateActive == 1
ClientStateRestart == 2
ClientStateEnded == 3

VARIABLES
    \* ---- SFU
    clients,                    \* SFU.clients: the ids in the map
    created,                    \* ids for which NewClient has run
    panicked,                   \* a panic() was reached: the process is gone
    \* ---- Client: lifecycle
    State,                      \* Client.State
    cancelled,                  \* Client.Context is cancelled
    connState,                  \* peerConnection.ConnectionState()
    iceState,                   \* peerConnection.ICEConnectionState()
    stopping,                   \* callers inside Stop, between line 695 and 697
    stopResult,                 \* what the last Stop of each caller returned
    idleTimer,                  \* the idle timer goroutine: none, waiting, cancelled
    \* ---- Client: tracks
    tracks,                     \* Client.tracks: track id -> track
    pendingPublishedTracks,     \* key -> track
    pendingReceivedTracks,      \* key -> track
    publishedTracks,            \* key -> track
    senders,                    \* tracks with a sender on the peer connection
    delivered,                  \* tracks the transport has delivered (OnTrack)
    trackPublished,             \* the key sets SFU.onTrackPublished was called with, per publisher
    reading,                    \* tracks whose read loop is running
    removedTracks,              \* keys removePublishedTrack returned true for
    renegotiateSpawned,         \* clients the last SFU step ran `go renegotiate()` for
    \* ---- Client: signaling
    isInRenegotiation,
    isInRemoteNegotiation,
    pendingRemoteRenegotiation,
    NegotiationNeeded,
    canAddCandidate,
    initialTracksCount,
    pendingRemoteCandidates,
    pendingLocalCandidates,
    appliedCandidates,          \* candidates given to peerConnection.AddICECandidate
    sentCandidates,             \* candidates given to OnIceCandidate
    addCandidateCall,           \* AddICECandidate between its test and its append: the candidate, or 0
    acceptedCandidates,         \* candidates AddICECandidate returned nil for
    iceCandidateCall,           \* the OnICECandidate handler between its test and its append: the candidate, or 0
    generatedCandidates,        \* number of candidates the OnICECandidate handler was called with
    signalingState,             \* peerConnection.SignalingState()
    remoteDescription,          \* peerConnection.RemoteDescription() != nil
    transceivers,               \* transceivers added by remote offers
    firstOfferTracks,           \* transceivers added by the first remote offer, -1 before it
    bridgeOpen,                 \* InitNegotiation done, CompleteNegotiation not yet
    \* ---- operation queue
    queue,                      \* items pushed and not yet consumed
    consumer,                   \* position of the queue's consumer
    negotiateCall,              \* state of each Negotiate call
    negotiateStage,             \* how far the last negotiateQueuOp got
    allowCall,                  \* IsAllowNegotiation between its read and its write
    allowResult,                \* what the last IsAllowNegotiation returned
    allowedRemote,              \* OnAllowedRemoteRenegotiation was called
    \* ---- one SimulcastClientTrack
    sequenceNumber,             \* SimulcastClientTrack.sequenceNumber (uint32)
    lastQuality,                \* SimulcastClientTrack.lastQuality
    lastTimestamp,              \* SimulcastClientTrack.lastTimestamp (uint32)
    baseTS,                     \* SimulcastTrack.baseTS
    remoteTrackBaseTS,          \* SimulcastTrack.remoteTrack{High,Mid,Low}BaseTS
    clock,                      \* the frame the publisher is sending
    pushed,                     \* number of push calls begun
    pushAt,                     \* position of each layer's reader loop inside push
    pushLocal,                  \* the locals of each layer's push call
    written,                    \* the packets handed to localTrack.WriteRTP, in order
    isEnded,                    \* SimulcastClientTrack.isEnded
    onTrackEndedCallbacks,      \* the callbacks registered, in order
    endedAt,                    \* position of each layer's onTrackEnded call
    callbackRuns,               \* how often each callback has run
    \* ---- one Metadata
    onChangedCallbacks,         \* Metadata.onChangedCallbacks
    subscriptions,              \* idx of each OnMetaChangedSubscription, -1 before OnChanged
    unsubscribed,               \* Unsubscribe calls returned, per subscription
    meta,                       \* Metadata.m
    notified,                   \* per Set or Delete: the callbacks invoked
    metaCalls,                  \* the Set and Delete calls made, with what they returned
    metaPanicked,               \* Unsubscribe sliced out of range
    \* ---- the room's idle timer
    idleChan,                   \* SFU.idleChan: nil, or a channel
    sfuContext,                 \* SFU.context: live or done
    sfuLoop,                    \* the goroutine of New: select, stopping, returned
    sfuTimer,                   \* the goroutine of SFU.startIdleTimeout
    \* ---- Client.addTrack, one call at a time
    addTrackCall,               \* per client and track: where the call of addTrack is
    \* ---- SFU.removeTrack, the last call
    removeTrackCall,            \* <<>>, or <<[key, had, ret]>>: what the call returned
    \* ---- SimulcastClientTrack.getDistributedQuality
    bitratesConfig,             \* SFU.bitratesConfig
    otherTracks,                \* the tracks of the other clients, counted by kind
    qualityCall,                \* <<>>, or the last call: its inputs and what it returned
    clientTrack,                \* the SimulcastClientTrack asked: none, or made
    \* ---- Metadata.mu and the goroutine that calls Set and Delete
    mu,                         \* Metadata.mu: unlocked, locked or rlocked
    metaStack                   \* the calls on the Metadata the goroutine is in, outermost first

sfuVars == <<clients, created, panicked>>
lifeVars == <<State, cancelled, connState, iceState, stopping, stopResult,
              idleTimer>>
trackVars == <<tracks, pendingPublishedTracks, pendingReceivedTracks,
               publishedTracks, senders, delivered, trackPublished, reading,
               removedTracks,
               renegotiateSpawned>>
flagVars == <<isInRenegotiation, isInRemoteNegotiation,
              pendingRemoteRenegotiation, NegotiationNeeded, canAddCandidate,
              initialTracksCount>>
iceVars == <<pendingRemoteCandidates, pendingLocalCandidates,
             appliedCandidates, sentCandidates, addCandidateCall,
             acceptedCandidates, iceCandidateCall, generatedCandidates>>
pcVars == <<signalingState, remoteDescription, transceivers, firstOfferTracks,
            bridgeOpen>>
queueVars == <<queue, consumer, negotiateCall, negotiateStage>>
allowVars == <<allowCall, allowResult, allowedRemote>>
sigVars == <<flagVars, iceVars, pcVars, queueVars, allowVars>>
pushVars == <<sequenceNumber, lastQuality, lastTimestamp, baseTS, remoteTrackBaseTS,
              clock, pushed, pushAt, pushLocal, written>>
endedVars == <<isEnded, onTrackEndedCallbacks, endedAt, callbackRuns>>
metaVars == <<onChangedCallbacks, subscriptions, unsubscribed, meta, notified, metaCalls,
              metaPanicked>>
\* the state of a room and its clients; the state of a client track and of a
\* Metadata, which no operation of a client touches
roomVars == <<sfuVars, lifeVars, trackVars, sigVars>>
idleVars == <<idleChan, sfuContext, sfuLoop, sfuTimer>>
callVars == <<addTrackCall, removeTrackCall>>
qualityVars == <<bitratesConfig, otherTracks, qualityCall, clientTrack>>
lockVars == <<mu, metaStack>>
mediaVars == <<pushVars, endedVars, metaVars, idleVars, callVars, qualityVars, lockVars>>
vars == <<roomVars, mediaVars>>

(***************************************************************************)
(* Go maps as functions.                                                   *)
(***************************************************************************)
EmptyMap == [k \in {} |-> k]
MapPut(m, k, v) == [x \in (DOMAIN m) \cup {k} |-> IF x = k THEN v ELSE m[x]]
MapDelete(m, k) == [x \in (DOMAIN m) \ {k} |-> m[x]]
MapValues(m) == {m[k] : k \in DOMAIN m}

\* all orders in which a range loop may visit the elements of S
Orders(S) == {s \in [1..Cardinality(S) -> S] : \A x \in S : \E i \in DOMAIN s : s[i] = x}

\* track.StreamID() + "-" + track.ID()
TrackKey(t) == t.stream \o "-" \o t.id


(***************************************************************************)
(* Track fan-out.  The subscriber side of a client is the record           *)
(*   [pub  : publishedTracks, snd : the senders of its peer connection,    *)
(*    pend : pendingReceivedTracks, rem : removedTracks, ret : the value   *)
(*    the last call on it returned]                                        *)
(* and a `fan' maps every client id to that record, so that a handler      *)
(* that loops over clients and tracks is one function of the fan.          *)
(***************************************************************************)
Fan == [c \in ClientIDs |->
          [pub |-> publishedTracks[c], snd |-> senders[c],
           pend |-> pendingReceivedTracks[c], rem |-> removedTracks[c],
           ret |-> FALSE]]

\* Client.setClientTrack; addErr: peerConnection.AddTrack returns an error
setClientTrack(r, track, addErr) ==
    LET id == TrackKey(track) IN
    IF id \in DOMAIN r.pub
    THEN [r EXCEPT !.ret = FALSE]
    ELSE IF addErr
         THEN [r EXCEPT !.pub = MapPut(@, id, track), !.ret = FALSE]
         ELSE [r EXCEPT !.pub = MapPut(@, id, track),
                        !.snd = @ \cup {track}, !.ret = TRUE]

\* Client.addTrack; ice: peerConnection.ICEConnectionState()
addTrack(r, ice, track, addErr) ==
    IF ice # "connected"
    THEN [r EXCEPT !.pend = MapPut(@, TrackKey(track), track), !.ret = FALSE]
    ELSE setClientTrack(r, track, addErr)

\* the tracks of `order' added one after the other; the last call's value stays in ret
RECURSIVE addTracks(_, _, _, _)
addTracks(r, ice, order, errs) ==
    IF order = <<>> THEN r
    ELSE addTracks(addTrack(r, ice, Head(order), Head(order) \in errs),
                   ice, Tail(order), errs)

\* Client.removePublishedTrack; conn: peerConnection.ConnectionState()
removePublishedTrack(r, conn, streamID, trackID) ==
    LET key == streamID \o "-" \o trackID
        removed == key \in DOMAIN r.pub
        r1 == [r EXCEPT !.pub = MapDelete(@, key)]
    IN  IF conn = "closed"
        THEN [r1 EXCEPT !.ret = FALSE]
        ELSE [r1 EXCEPT
                !.snd = {t \in @ : ~(t.id = trackID /\ t.stream = streamID)},
                !.rem = IF removed THEN @ \cup {key} ELSE @,
                !.ret = removed]

\* Client.processPendingTracks: every pending track is set, the buffer is replaced
RECURSIVE setPendingTracks(_, _, _)
setPendingTracks(r, order, errs) ==
    IF order = <<>> THEN r
    ELSE setPendingTracks(setClientTrack(r, Head(order), Head(order) \in errs),
                          Tail(order), errs)

processPendingTracks(r, order, errs) ==
    [setPendingTracks([r EXCEPT !.ret = FALSE], order, errs) EXCEPT !.pend = EmptyMap]

\* Client.GetCurrentTracks: the keys of the map it returns
GetCurrentTracks(pub, conn) ==
    IF conn = "closed" \/ conn = "failed"
    THEN {}
    ELSE {TrackKey(t) : t \in MapValues(pub)}

\* SFU.removeTrack over the clients `cs' of the map, `last' being the client the
\* range loop visits last: [fan, ret]
SFU_removeTrack(f, cs, conn, streamID, trackID, last) ==
    LET g == [c \in ClientIDs |->
                IF c \in cs
                THEN removePublishedTrack(f[c], conn[c], streamID, trackID)
                ELSE f[c]]
    IN  [fan |-> g, ret |-> IF cs = {} THEN FALSE ELSE g[last].ret]

\* SFU.removeTrack for each track of `order' (a loop over Client.tracks):
\* [fan, ret], ret being the value of the last call
RECURSIVE removeTracks(_, _, _, _, _)
removeTracks(f, cs, conn, order, last) ==
    IF order = <<>> THEN [fan |-> f, ret |-> FALSE]
    ELSE LET one == SFU_removeTrack(f, cs, conn, Head(order).stream, Head(order).id, last)
         IN  IF Len(order) = 1 THEN one
             ELSE removeTracks(one.fan, cs, conn, Tail(order), last)

\* SFU.broadcastTracks of the publisher's tracks, in the order of the slice:
\* the fan afterwards; ret of a client is its `renegotiate'
broadcastTracks(f, cs, ice, publisher, order, errs) ==
    [c \in ClientIDs |->
        IF c \in cs /\ c # publisher
        THEN addTracks([f[c] EXCEPT !.ret = FALSE], ice[c], order, errs[c])
        ELSE [f[c] EXCEPT !.ret = FALSE]]

\* SFU.SyncTrack(client): the tracks of the other clients that are not among
\* the client's current tracks
SyncMissing(f, cs, conn, trk, client) ==
    {t \in UNION {MapValues(trk[p]) : p \in cs \ {client}} :
        TrackKey(t) \notin GetCurrentTracks(f[client].pub, conn[client])}

\* SFU.SyncTrack: [fan, ret]
SyncTrack(f, cs, conn, ice, trk, client, order, errs) ==
    [fan |-> [f EXCEPT ![client] = addTracks(@, ice[client], order, errs)],
     ret |-> order # <<>>]

\* the variables of the fan-out written back from a fan
SetFan(f) ==
    /\ publishedTracks' = [c \in ClientIDs |-> f[c].pub]
    /\ senders' = [c \in ClientIDs |-> f[c].snd]
    /\ pendingReceivedTracks' = [c \in ClientIDs |-> f[c].pend]
    /\ removedTracks' = [c \in ClientIDs |-> f[c].rem]

(***************************************************************************)
(* Client lifecycle.  A `world' is what the close path of a client writes: *)
(*   [fan, trk : Client.tracks of every client, cs : SFU.clients,          *)
(*    st : Client.State, can : the cancelled contexts,                     *)
(*    spawned : the clients `go client.renegotiate()' was run for]         *)
(***************************************************************************)
World == [fan |-> Fan, trk |-> tracks, cs |-> clients, st |-> State,
          can |-> cancelled, spawned |-> {}]

\* SFU.onAfterClientStopped: the client leaves the map
onAfterClientStopped(cs, c) == cs \ {c}

\* SFU.renegotiateAllClients: the clients a renegotiate goroutine is started for
renegotiateAllClients(cs) == cs

\* Client.afterClosed; order: the loop over c.tracks, last: the client the
\* loops of SFU.removeTrack visit last
afterClosed(w, conn, c, order, last) ==
    LET rt == removeTracks(w.fan, w.cs, conn, order, last)
    IN  [w EXCEPT !.st[c] = ClientStateEnded,
                  !.fan = rt.fan,
                  !.spawned = IF rt.ret THEN @ \cup renegotiateAllClients(w.cs) ELSE @,
                  !.can[c] = TRUE,
                  !.cs = onAfterClientStopped(@, c)]

\* the Closed case of client.onConnectionStateChanged
closedHandler(w, conn, c, order, last) ==
    LET rt == removeTracks(w.fan, w.cs, conn, order, last)
        w1 == [w EXCEPT !.trk[c] = EmptyMap, !.fan = rt.fan]
    IN  afterClosed(w1, conn, c, <<>>, last)

\* the Connected case of client.onConnectionStateChanged
connectedHandler(w, conn, ice, c, pendOrder, errs) ==
    LET hasPending == DOMAIN w.fan[c].pend # {}
        f1 == IF hasPending
              THEN [w.fan EXCEPT ![c] = processPendingTracks(@, pendOrder, errs)]
              ELSE w.fan
        missing == SyncMissing(f1, w.cs, conn, w.trk, c)
        sync == SyncTrack(f1, w.cs, conn, ice, w.trk, c,
                          CHOOSE o \in Orders(missing) : TRUE, errs)
        needRenegotiation == hasPending \/ sync.ret
    IN  [w EXCEPT !.fan = sync.fan,
                  !.spawned = IF needRenegotiation THEN @ \cup {c} ELSE @]

\* the variables a world holds, written back
SetWorld(w) ==
    /\ SetFan(w.fan)
    /\ tracks' = w.trk
    /\ clients' = w.cs
    /\ State' = w.st
    /\ cancelled' = w.can
    /\ renegotiateSpawned' = w.spawned

\* the pairs (ICE connection state, peer connection state) of a peer connection
\* and the moves between them the transport makes
PcMoves ==
    { <<<<"new", "new">>, <<"checking", "connecting">>>>,
      <<<<"checking", "connecting">>, <<"connected", "connecting">>>>,
      <<<<"checking", "connecting">>, <<"failed", "failed">>>>,
      <<<<"connected", "connecting">>, <<"connected", "connected">>>>,
      <<<<"connected", "connecting">>, <<"completed", "connected">>>>,
      <<<<"connected", "connected">>, <<"completed", "connected">>>>,
      <<<<"connected", "connected">>, <<"disconnected", "disconnected">>>>,
      <<<<"completed", "connected">>, <<"disconnected", "disconnected">>>>,
      <<<<"disconnected", "disconnected">>, <<"connected", "connected">>>>,
      <<<<"disconnected", "disconnected">>, <<"failed", "failed">>>>,
      <<<<"failed", "failed">>, <<"checking", "connecting">>>> }

\* the moves explored in the room: connect, lose the connection, reconnect
RoomMoves ==
    { <<<<"new", "new">>, <<"checking", "connecting">>>>,
      <<<<"checking", "connecting">>, <<"connected", "connected">>>>,
      <<<<"connected", "connected">>, <<"disconnected", "disconnected">>>>,
      <<<<"disconnected", "disconnected">>, <<"connected", "connected">>>> }

\* SFU.NewClient: createClient, then addClient
NewClient(c) ==
    /\ ~panicked
    /\ c \notin created
    /\ created' = created \cup {c}
    /\ clients' = clients \cup {c}
    /\ renegotiateSpawned' = {}
    /\ UNCHANGED <<panicked, lifeVars, sigVars>>
    /\ UNCHANGED <<tracks, pendingPublishedTracks, pendingReceivedTracks,
                   publishedTracks, senders, delivered, trackPublished, reading,
                   removedTracks>>
    /\ UNCHANGED mediaVars

\* Client.startIdleTimeout / Client.cancelIdleTimeout on the timer goroutine:
\* the goroutine waits for idleTimeoutContext.Done(), which the timeout, the
\* cancel function and the client's own context all close
startIdleTimeout(timer) == "waiting"
cancelIdleTimeout(timer) == IF timer = "waiting" THEN "cancelled" ELSE timer

\* peerConnection.OnConnectionStateChange: the transport moves the peer
\* connection to another state and the handler of createClient runs
ConnectionStateChange(c, moves) ==
    /\ ~panicked
    /\ c \in created
    /\ \E m \in moves, pendOrder \in Orders(MapValues(pendingReceivedTracks[c])),
          errs \in SUBSET TrackPool :
        /\ m[1] = <<iceState[c], connState[c]>>
        /\ iceState' = [iceState EXCEPT ![c] = m[2][1]]
        /\ connState' = [connState EXCEPT ![c] = m[2][2]]
        /\ LET changed == m[2][2] # connState[c]
               handled == changed /\ State[c] # ClientStateEnded
           IN  /\ IF handled /\ m[2][2] = "connected"
                  THEN SetWorld(connectedHandler(World, connState', iceState', c,
                                                 pendOrder, errs))
                  ELSE /\ errs = {}
                       /\ SetWorld(World)
               /\ idleTimer' =
                    [idleTimer EXCEPT ![c] =
                        IF handled /\ m[2][2] = "failed" THEN startIdleTimeout(@)
                        ELSE IF handled /\ m[2][2] = "connecting" THEN cancelIdleTimeout(@)
                        ELSE @]
    /\ UNCHANGED <<created, panicked, stopping, stopResult, sigVars>>
    /\ UNCHANGED <<pendingPublishedTracks, delivered, trackPublished, reading>>
    /\ UNCHANGED mediaVars

\* the peer connection is closed from outside Client.Stop (by the remote
\* peer or SFU.Stop) and the handler of createClient runs the Closed case
ConnectionClosed(c) ==
    /\ ~panicked
    /\ c \in created
    /\ connState[c] # "closed"
    /\ iceState' = [iceState EXCEPT ![c] = "closed"]
    /\ connState' = [connState EXCEPT ![c] = "closed"]
    /\ \E order \in Orders(MapValues(tracks[c])), last \in ClientIDs :
        /\ clients # {} => last \in clients
        /\ IF State[c] # ClientStateEnded
           THEN SetWorld(closedHandler(World, connState', c, order, last))
           ELSE SetWorld(World)
    /\ UNCHANGED <<created, panicked, stopping, stopResult, idleTimer, sigVars>>
    /\ UNCHANGED <<pendingPublishedTracks, delivered, trackPublished, reading>>
    /\ UNCHANGED mediaVars

\* peerConnection.OnTrack: the handler of createClient, then client.onTrack
\* of SFU.NewClient, which publishes the pending tracks of the client
OnTrack(c, t) ==
    /\ ~panicked
    /\ c \in created
    /\ t \notin delivered
    /\ connState[c] \notin {"new", "closed"}
    /\ delivered' = delivered \cup {t}
    /\ reading' = [reading EXCEPT ![c] = @ \cup {t}]
    /\ State' = [State EXCEPT ![c] = ClientStateActive]
    /\ tracks' = [tracks EXCEPT ![c] = MapPut(@, t.id, t)]
    /\ pendingPublishedTracks' =
            [pendingPublishedTracks EXCEPT ![c] = MapPut(@, TrackKey(t), t)]
    /\ IF initialTracksCount[c] > Cardinality(DOMAIN pendingPublishedTracks'[c])
       THEN /\ SetFan(Fan)
            /\ renegotiateSpawned' = {}
            /\ UNCHANGED trackPublished
       ELSE \E order \in Orders(MapValues(pendingPublishedTracks'[c])),
               errs \in [ClientIDs -> SUBSET MapValues(pendingPublishedTracks'[c])] :
                /\ \A x \in ClientIDs : x \notin clients \ {c} => errs[x] = {}
                /\ LET f == broadcastTracks(Fan, clients, iceState, c, order, errs)
                   IN  /\ SetFan(f)
                       /\ renegotiateSpawned' = {x \in clients : f[x].ret}
                       /\ trackPublished' = [trackPublished EXCEPT ![c] =
                               Append(@, DOMAIN pendingPublishedTracks'[c])]
    /\ UNCHANGED <<sfuVars, cancelled, connState, iceState, stopping, stopResult,
                   idleTimer, sigVars>>
    /\ UNCHANGED mediaVars

\* the read loop of a track gets io.EOF
TrackEOF(c, t) ==
    /\ ~panicked
    /\ t \in reading[c]
    /\ reading' = [reading EXCEPT ![c] = @ \ {t}]
    /\ tracks' = [tracks EXCEPT ![c] = MapDelete(@, t.id)]
    /\ \E last \in ClientIDs :
        /\ clients # {} => last \in clients
        /\ SetFan(SFU_removeTrack(Fan, clients, connState, t.stream, t.id, last).fan)
    /\ renegotiateSpawned' = {}
    /\ UNCHANGED <<sfuVars, lifeVars, pendingPublishedTracks, delivered, trackPublished,
                   sigVars>>
    /\ UNCHANGED mediaVars

\* Client.Stop without its test of the state: every call closes again
StopUnguarded(c, k) ==
    /\ ~panicked
    /\ c \in created
    /\ k \notin stopping[c]
    /\ State' = [State EXCEPT ![c] = ClientStateEnded]
    /\ stopping' = [stopping EXCEPT ![c] = @ \cup {k}]
    /\ stopResult' = [stopResult EXCEPT ![c][k] = "running"]
    /\ UNCHANGED <<sfuVars, cancelled, connState, iceState, trackVars, sigVars>>
    /\ UNCHANGED mediaVars

\* Client.Stop up to `c.State = ClientStateEnded'
Stop(c, k) ==
    /\ ~panicked
    /\ c \in created
    /\ k \notin stopping[c]
    /\ IF State[c] = ClientStateEnded
       THEN /\ stopResult' = [stopResult EXCEPT ![c][k] = "ErrClientStoped"]
            /\ UNCHANGED <<State, stopping>>
       ELSE /\ State' = [State EXCEPT ![c] = ClientStateEnded]
            /\ stopping' = [stopping EXCEPT ![c] = @ \cup {k}]
            /\ stopResult' = [stopResult EXCEPT ![c][k] = "running"]
    /\ UNCHANGED <<sfuVars, cancelled, connState, iceState, trackVars, sigVars>>
    /\ UNCHANGED mediaVars

\* Client.Stop called by the signaling layer
UserStop(c) ==
    /\ Stop(c, "user")
    /\ UNCHANGED idleTimer

\* the goroutine of Client.startIdleTimeout: the context is done, Stop is called
IdleTimeout(c) ==
    /\ idleTimer[c] # "none"
    /\ idleTimer' = [idleTimer EXCEPT ![c] = "none"]
    /\ Stop(c, "timer")

\* Client.Stop from peerConnection.Close() on
StopClose(c, k) ==
    /\ ~panicked
    /\ k \in stopping[c]
    /\ stopping' = [stopping EXCEPT ![c] = @ \ {k}]
    /\ \E closeErr \in BOOLEAN, order \in Orders(MapValues(tracks[c])), last \in ClientIDs :
        /\ clients # {} => last \in clients
        /\ IF closeErr
           THEN /\ stopResult' = [stopResult EXCEPT ![c][k] = "closeError"]
                /\ SetWorld(World)
                /\ UNCHANGED <<connState, iceState>>
           ELSE /\ stopResult' = [stopResult EXCEPT ![c][k] = "nil"]
                /\ iceState' = [iceState EXCEPT ![c] = "closed"]
                /\ connState' = [connState EXCEPT ![c] = "closed"]
                /\ LET handled == connState[c] # "closed" /\ State[c] # ClientStateEnded
                       w1 == IF handled
                             THEN closedHandler(World, connState', c, order, last)
                             ELSE World
                   IN  SetWorld(afterClosed(w1, connState', c,
                                            IF handled THEN <<>> ELSE order, last))
    /\ UNCHANGED <<created, panicked, idleTimer, sigVars>>
    /\ UNCHANGED <<pendingPublishedTracks, delivered, trackPublished, reading>>
    /\ UNCHANGED mediaVars

InitSfu ==
    /\ clients = {}
    /\ created = {}
    /\ panicked = FALSE
    /\ State = [c \in ClientIDs |-> ClientStateNew]
    /\ cancelled = [c \in ClientIDs |-> FALSE]
    /\ connState = [c \in ClientIDs |-> "new"]
    /\ iceState = [c \in ClientIDs |-> "new"]
    /\ stopping = [c \in ClientIDs |-> {}]
    /\ stopResult = [c \in ClientIDs |-> [k \in StopCallers |-> "none"]]
    /\ idleTimer = [c \in ClientIDs |-> "none"]
    /\ tracks = [c \in ClientIDs |-> EmptyMap]
    /\ pendingPublishedTracks = [c \in ClientIDs |-> EmptyMap]
    /\ pendingReceivedTracks = [c \in ClientIDs |-> EmptyMap]
    /\ publishedTracks = [c \in ClientIDs |-> EmptyMap]
    /\ senders = [c \in ClientIDs |-> {}]
    /\ delivered = {}
    /\ trackPublished = [c \in ClientIDs |-> <<>>]
    /\ reading = [c \in ClientIDs |-> {}]
    /\ removedTracks = [c \in ClientIDs |-> {}]
    /\ renegotiateSpawned = {}

InitSig ==
    /\ isInRenegotiation = [c \in ClientIDs |-> FALSE]
    /\ isInRemoteNegotiation = [c \in ClientIDs |-> FALSE]
    /\ pendingRemoteRenegotiation = [c \in ClientIDs |-> FALSE]
    /\ NegotiationNeeded = [c \in ClientIDs |-> FALSE]
    /\ canAddCandidate = [c \in ClientIDs |-> FALSE]
    /\ initialTracksCount = [c \in ClientIDs |-> 0]
    /\ pendingRemoteCandidates = [c \in ClientIDs |-> <<>>]
    /\ pendingLocalCandidates = [c \in ClientIDs |-> <<>>]
    /\ appliedCandidates = [c \in ClientIDs |-> <<>>]
    /\ sentCandidates = [c \in ClientIDs |-> <<>>]
    /\ addCandidateCall = [c \in ClientIDs |-> 0]
    /\ acceptedCandidates = [c \in ClientIDs |-> <<>>]
    /\ iceCandidateCall = [c \in ClientIDs |-> 0]
    /\ generatedCandidates = [c \in ClientIDs |-> 0]
    /\ signalingState = [c \in ClientIDs |-> "stable"]
    /\ remoteDescription = [c \in ClientIDs |-> FALSE]
    /\ transceivers = [c \in ClientIDs |-> 0]
    /\ firstOfferTracks = [c \in ClientIDs |-> -1]
    /\ bridgeOpen = [c \in ClientIDs |-> FALSE]
    /\ queue = [c \in ClientIDs |-> <<>>]
    /\ consumer = [c \in ClientIDs |-> "idle"]
    /\ negotiateCall = [c \in ClientIDs |-> [k \in 1..MaxNegotiate |-> "none"]]
    /\ negotiateStage = [c \in ClientIDs |-> "none"]
    /\ allowCall = [c \in ClientIDs |-> "none"]
    /\ allowResult = [c \in ClientIDs |-> "none"]
    /\ allowedRemote = [c \in ClientIDs |-> FALSE]

\* the simulcast layers, and the quality levels a client track can be at
Layers == {"high", "mid", "low"}
QualityLevels == Layers \cup {"none"}
\* what `var x QualityLevel' and a new atomic.Uint32 hold
QualityNone == "none"

\* a SimulcastClientTrack before its construction, with zeroed atomics
InitPush ==
    /\ sequenceNumber = <<0, 0>>
    /\ lastQuality = QualityNone
    /\ lastTimestamp = <<0, 0>>
    /\ baseTS = <<0, 0>>
    /\ remoteTrackBaseTS = [l \in Layers |-> <<0, 0>>]
    /\ clock = 0
    /\ pushed = 0
    /\ pushAt = [l \in Layers |-> "new"]
    /\ pushLocal = [l \in Layers |-> <<>>]
    /\ written = <<>>

InitEnded ==
    /\ isEnded = FALSE
    /\ onTrackEndedCallbacks = <<>>
    /\ endedAt = [l \in Layers |-> "idle"]
    /\ callbackRuns = [f \in 1..MaxCallbacks |-> 0]

\* NewMetadata
InitMeta ==
    /\ onChangedCallbacks = <<>>
    /\ subscriptions = [i \in 1..MaxSubscriptions |-> -1]
    /\ unsubscribed = [i \in 1..MaxSubscriptions |-> 0]
    /\ meta = <<>>
    /\ notified = <<>>
    /\ metaCalls = <<>>
    /\ metaPanicked = FALSE

\* New: the struct literal leaves idleChan nil, and the goroutine waits in
\* its select
InitIdle ==
    /\ idleChan = "nil"
    /\ sfuContext = "live"
    /\ sfuLoop = "select"
    /\ sfuTimer = "none"

\* no call of addTrack or of SFU.removeTrack has been made
InitCall ==
    /\ addTrackCall = [c \in ClientIDs |-> [t \in TrackPool |-> "none"]]
    /\ removeTrackCall = <<>>

\* the bitrates are not configured yet, no other client has a track, the
\* client has no simulcast client track, no quality has been asked for
InitQuality ==
    /\ bitratesConfig = <<>>
    /\ otherTracks = [audio |-> 0, video |-> 0, simulcast |-> 0]
    /\ qualityCall = <<>>
    /\ clientTrack = "none"

\* NewMetadata: the mutex is unlocked, no call is running
InitLock ==
    /\ mu = "unlocked"
    /\ metaStack = <<>>

Init ==
    /\ InitSfu /\ InitSig /\ InitPush /\ InitEnded /\ InitMeta /\ InitIdle /\ InitCall
    /\ InitQuality /\ InitLock

(***************************************************************************)
(* The room: clients join, connect, publish, stop and leave.               *)
(***************************************************************************)
\* a publisher of the room receives a track
RoomOnTrack(c, t) ==
    /\ c \in Publishers
    /\ OnTrack(c, t)

NextSfu ==
    \E c \in ClientIDs :
        \/ NewClient(c)
        \/ ConnectionStateChange(c, RoomMoves)
        \/ ConnectionClosed(c)
        \/ \E t \in TrackPool : RoomOnTrack(c, t)
        \/ \E t \in TrackPool : TrackEOF(c, t)
        \/ UserStop(c)
        \/ StopClose(c, "user")

SpecSfu == Init /\ [][NextSfu]_vars

(***************************************************************************)
(* The life of one client: every move of its peer connection, its tracks,  *)
(* Stop from the signaling layer and from the idle timer.                  *)
(***************************************************************************)
NextLife ==
    \E c \in SigClients :
        \/ NewClient(c)
        \/ ConnectionStateChange(c, PcMoves)
        \/ ConnectionClosed(c)
        \/ \E t \in TrackPool : OnTrack(c, t)
        \/ \E t \in TrackPool : TrackEOF(c, t)
        \/ UserStop(c)
        \/ IdleTimeout(c)
        \/ \E k \in StopCallers : StopClose(c, k)

SpecLife == Init /\ [][NextLife]_vars

(***************************************************************************)
(* Signaling.  The peer connection's offer/answer state machine: which     *)
(* description may be set in which signaling state.                        *)
(***************************************************************************)
CanSetRemoteOffer(sig, conn) == conn # "closed" /\ sig \in {"stable", "have-remote-offer"}
CanSetLocalAnswer(sig, conn) == conn # "closed" /\ sig = "have-remote-offer"
CanSetLocalOffer(sig, conn) == conn # "closed" /\ sig \in {"stable", "have-local-offer"}
CanSetRemoteAnswer(sig, conn) == conn # "closed" /\ sig = "have-local-offer"

\* queue.Push: the item goes to the end of the queue
Push(q, item) == Append(q, item)

QueueItem(op, call, offer) == [op |-> op, call |-> call, offer |-> offer]

\* the consumer may take the next item
CanConsume(c, op) ==
    /\ ~panicked
    /\ c \in created
    /\ consumer[c] = "idle"
    /\ ~cancelled[c]
    /\ queue[c] # <<>>
    /\ Head(queue[c]).op = op

\* Client.IsAllowNegotiation, the read of isInRenegotiation
IsAllowNegotiationRead(c) ==
    /\ ~panicked
    /\ c \in created
    /\ allowCall[c] = "none"
    /\ allowCall' = [allowCall EXCEPT ![c] = IF isInRenegotiation[c] THEN "refuse" ELSE "grant"]
    /\ UNCHANGED <<sfuVars, lifeVars, trackVars, flagVars, iceVars, pcVars, queueVars,
                   allowResult, allowedRemote>>
    /\ UNCHANGED mediaVars

\* Client.IsAllowNegotiation, the write that follows and the return
IsAllowNegotiation(c) ==
    /\ ~panicked
    /\ allowCall[c] # "none"
    /\ allowCall' = [allowCall EXCEPT ![c] = "none"]
    /\ IF allowCall[c] = "refuse"
       THEN /\ pendingRemoteRenegotiation' = [pendingRemoteRenegotiation EXCEPT ![c] = TRUE]
            /\ allowResult' = [allowResult EXCEPT ![c] = "false"]
            /\ UNCHANGED isInRemoteNegotiation
       ELSE /\ isInRemoteNegotiation' = [isInRemoteNegotiation EXCEPT ![c] = TRUE]
            /\ allowResult' = [allowResult EXCEPT ![c] = "true"]
            /\ UNCHANGED pendingRemoteRenegotiation
    /\ UNCHANGED <<sfuVars, lifeVars, trackVars, iceVars, pcVars, queueVars, allowedRemote>>
    /\ UNCHANGED <<isInRenegotiation, NegotiationNeeded, canAddCandidate, initialTracksCount>>
    /\ UNCHANGED mediaVars

\* Client.Negotiate: the item is pushed, the caller waits on its two channels
Negotiate(c, k, offer) ==
    /\ ~panicked
    /\ c \in created
    /\ Len(queue[c]) < MaxQueue
    /\ negotiateCall[c][k] = "none"
    /\ \A j \in 1..(k - 1) : negotiateCall[c][j] # "none"
    /\ queue' = [queue EXCEPT ![c] = Push(@, QueueItem("negotiate", k, offer))]
    /\ negotiateCall' = [negotiateCall EXCEPT ![c][k] = "waiting"]
    /\ UNCHANGED <<sfuVars, lifeVars, trackVars, flagVars, iceVars, pcVars, allowVars,
                   consumer, negotiateStage>>
    /\ UNCHANGED mediaVars

\* Client.renegotiate
renegotiate(c) ==
    /\ ~panicked
    /\ c \in created
    /\ Len(queue[c]) < MaxQueue
    /\ queue' = [queue EXCEPT ![c] = Push(@, QueueItem("renegotiate", 0, 0))]
    /\ UNCHANGED <<sfuVars, lifeVars, trackVars, flagVars, iceVars, pcVars, allowVars,
                   consumer, negotiateCall, negotiateStage>>
    /\ UNCHANGED mediaVars

\* Client.allowRemoteRenegotiation
allowRemoteRenegotiation(c) ==
    /\ ~panicked
    /\ c \in created
    /\ Len(queue[c]) < MaxQueue
    /\ queue' = [queue EXCEPT ![c] = Push(@, QueueItem("allow", 0, 0))]
    /\ UNCHANGED <<sfuVars, lifeVars, trackVars, flagVars, iceVars, pcVars, allowVars,
                   consumer, negotiateCall, negotiateStage>>
    /\ UNCHANGED mediaVars

\* the outcomes of Client.negotiateQueuOp: the call that fails, or none
NegotiateFailures ==
    {"none", "SetRemoteDescription", "CreateAnswer", "SetLocalDescription", "AddICECandidate"}

\* Client.negotiateQueuOp, run by the consumer for a Negotiate item, and the
\* reply on AnswerChan or ErrorChan
negotiateQueuOp(c, fail) ==
    LET item == Head(queue[c])
        remoteSet == fail # "SetRemoteDescription"
        localSet == remoteSet /\ fail \notin {"CreateAnswer", "SetLocalDescription"}
        done == fail = "none"
    IN
    /\ CanConsume(c, "negotiate")
    /\ remoteSet => CanSetRemoteOffer(signalingState[c], connState[c])
    /\ fail = "AddICECandidate" => pendingRemoteCandidates[c] # <<>>
    /\ queue' = [queue EXCEPT ![c] = Tail(@)]
    /\ negotiateStage' = [negotiateStage EXCEPT ![c] = fail]
    /\ isInRemoteNegotiation' = [isInRemoteNegotiation EXCEPT ![c] = ~done]
    /\ signalingState' = [signalingState EXCEPT ![c] =
            IF localSet THEN "stable" ELSE IF remoteSet THEN "have-remote-offer" ELSE @]
    /\ remoteDescription' = [remoteDescription EXCEPT ![c] = @ \/ remoteSet]
    /\ transceivers' = [transceivers EXCEPT ![c] = IF remoteSet THEN @ + item.offer ELSE @]
    /\ firstOfferTracks' = [firstOfferTracks EXCEPT ![c] =
            IF remoteSet /\ @ = -1 THEN item.offer ELSE @]
    /\ canAddCandidate' = [canAddCandidate EXCEPT ![c] = @ \/ localSet]
    /\ panicked' = (fail = "AddICECandidate")
    /\ IF done
       THEN /\ appliedCandidates' = [appliedCandidates EXCEPT ![c] = @ \o pendingRemoteCandidates[c]]
            /\ initialTracksCount' = [initialTracksCount EXCEPT ![c] = transceivers'[c] - transceivers[c]]
            /\ sentCandidates' = [sentCandidates EXCEPT ![c] = @ \o pendingLocalCandidates[c]]
            /\ pendingLocalCandidates' = [pendingLocalCandidates EXCEPT ![c] = <<>>]
            /\ pendingRemoteCandidates' = [pendingRemoteCandidates EXCEPT ![c] = <<>>]
            \* neither loop holds a lock: an append of a call in flight that
            \* lands between a loop and its `= nil' is dropped with the buffer
            /\ \E lostRemote, lostLocal \in BOOLEAN :
                /\ lostRemote => addCandidateCall[c] # 0
                /\ lostLocal => iceCandidateCall[c] # 0
                /\ addCandidateCall' = [addCandidateCall EXCEPT ![c] = IF lostRemote THEN 0 ELSE @]
                /\ acceptedCandidates' = [acceptedCandidates EXCEPT ![c] =
                        IF lostRemote THEN Append(@, addCandidateCall[c]) ELSE @]
                /\ iceCandidateCall' = [iceCandidateCall EXCEPT ![c] = IF lostLocal THEN 0 ELSE @]
            /\ UNCHANGED generatedCandidates
            /\ negotiateCall' = [negotiateCall EXCEPT ![c][item.call] = "answer"]
       ELSE /\ UNCHANGED <<iceVars, initialTracksCount>>
            /\ negotiateCall' = [negotiateCall EXCEPT ![c][item.call] =
                    IF fail = "AddICECandidate" THEN @ ELSE "error"]
    /\ UNCHANGED <<clients, created, lifeVars, trackVars, allowVars, bridgeOpen, consumer>>
    /\ UNCHANGED <<isInRenegotiation, pendingRemoteRenegotiation, NegotiationNeeded>>
    /\ UNCHANGED mediaVars

\* the loop of Client.renegotiateQueuOp from `for c.NegotiationNeeded' up to
\* the call of OnRenegotiation or the return; fail: the call that fails
renegotiationLoop(needed, st, sig, conn, fail) ==
    IF ~needed
    THEN [inRenegotiation |-> FALSE, sig |-> sig, consumer |-> "idle"]
    ELSE IF ~(st # ClientStateEnded /\ sig = "stable" /\ conn = "connected")
         THEN [inRenegotiation |-> FALSE, sig |-> sig, consumer |-> "idle"]
         ELSE IF fail \in {"CreateOffer", "SetLocalDescription"}
              THEN [inRenegotiation |-> TRUE, sig |-> sig, consumer |-> "idle"]
              ELSE [inRenegotiation |-> TRUE, sig |-> "have-local-offer",
                    consumer |-> "OnRenegotiation"]

\* Client.renegotiateQueuOp, run by the consumer for a Renegotiate item
renegotiateQueuOp(c, fail) ==
    /\ CanConsume(c, "renegotiate")
    /\ queue' = [queue EXCEPT ![c] = Tail(@)]
    /\ IF isInRemoteNegotiation[c] \/ isInRenegotiation[c]
       THEN /\ fail = "none"
            /\ NegotiationNeeded' = [NegotiationNeeded EXCEPT ![c] = TRUE]
            /\ UNCHANGED <<isInRenegotiation, signalingState, consumer>>
       ELSE LET r == renegotiationLoop(TRUE, State[c], signalingState[c], connState[c], fail)
            IN  /\ r.consumer = "idle" /\ ~r.inRenegotiation => fail = "none"
                /\ NegotiationNeeded' = [NegotiationNeeded EXCEPT ![c] = FALSE]
                /\ isInRenegotiation' = [isInRenegotiation EXCEPT ![c] = r.inRenegotiation]
                /\ signalingState' = [signalingState EXCEPT ![c] = r.sig]
                /\ consumer' = [consumer EXCEPT ![c] = r.consumer]
    /\ UNCHANGED <<sfuVars, lifeVars, trackVars, iceVars, allowVars, negotiateCall,
                   negotiateStage>>
    /\ UNCHANGED <<isInRemoteNegotiation, pendingRemoteRenegotiation, canAddCandidate,
                   initialTracksCount, remoteDescription, transceivers, firstOfferTracks,
                   bridgeOpen>>
    /\ UNCHANGED mediaVars

\* Client.renegotiateQueuOp from the return of OnRenegotiation on; out: what
\* the callback returned, or the failure of SetRemoteDescription
OnRenegotiationReturn(c, out, fail) ==
    /\ ~panicked
    /\ consumer[c] = "OnRenegotiation"
    /\ IF out \in {"error", "notAnswer"} \/ fail = "SetRemoteDescription"
       THEN /\ out \in {"error", "notAnswer"} => fail = "none"
            /\ consumer' = [consumer EXCEPT ![c] = "idle"]
            /\ UNCHANGED <<isInRenegotiation, signalingState, NegotiationNeeded>>
       ELSE /\ CanSetRemoteAnswer(signalingState[c], connState[c])
            /\ LET r == renegotiationLoop(NegotiationNeeded[c], State[c], "stable",
                                          connState[c], fail)
               IN  /\ r.consumer = "idle" /\ ~r.inRenegotiation => fail = "none"
                   /\ NegotiationNeeded' = [NegotiationNeeded EXCEPT ![c] = FALSE]
                   /\ isInRenegotiation' = [isInRenegotiation EXCEPT ![c] = r.inRenegotiation]
                   /\ signalingState' = [signalingState EXCEPT ![c] = r.sig]
                   /\ consumer' = [consumer EXCEPT ![c] = r.consumer]
    /\ remoteDescription' = [remoteDescription EXCEPT ![c] =
            @ \/ (out = "answer" /\ fail # "SetRemoteDescription")]
    /\ UNCHANGED <<sfuVars, lifeVars, trackVars, iceVars, allowVars>>
    /\ UNCHANGED <<queue, negotiateCall, negotiateStage>>
    /\ UNCHANGED <<isInRemoteNegotiation, pendingRemoteRenegotiation, canAddCandidate,
                   initialTracksCount, transceivers, firstOfferTracks, bridgeOpen>>
    /\ UNCHANGED mediaVars

\* Client.allowRemoteRenegotiationQueuOp, run by the consumer; the signaling
\* layer has registered OnAllowedRemoteRenegotiation
allowRemoteRenegotiationQueuOp(c) ==
    /\ CanConsume(c, "allow")
    /\ queue' = [queue EXCEPT ![c] = Tail(@)]
    /\ isInRemoteNegotiation' = [isInRemoteNegotiation EXCEPT ![c] = TRUE]
    /\ allowedRemote' = [allowedRemote EXCEPT ![c] = TRUE]
    /\ UNCHANGED <<sfuVars, lifeVars, trackVars, iceVars, pcVars, allowCall, allowResult,
                   consumer, negotiateCall, negotiateStage>>
    /\ UNCHANGED <<isInRenegotiation, pendingRemoteRenegotiation, NegotiationNeeded,
                   canAddCandidate, initialTracksCount>>
    /\ UNCHANGED mediaVars

\* the queue after the client's context is cancelled: a pending item is
\* dropped, a cancellation error goes to the reply channel it carries
QueueDrain(c) ==
    /\ ~panicked
    /\ consumer[c] = "idle"
    /\ cancelled[c]
    /\ queue[c] # <<>>
    /\ queue' = [queue EXCEPT ![c] = Tail(@)]
    /\ negotiateCall' = [negotiateCall EXCEPT ![c] =
            IF Head(queue[c]).op = "negotiate"
            THEN [@ EXCEPT ![Head(queue[c]).call] = "cancelled"]
            ELSE @]
    /\ UNCHANGED <<sfuVars, lifeVars, trackVars, flagVars, iceVars, pcVars, allowVars,
                   consumer, negotiateStage>>
    /\ UNCHANGED mediaVars

\* Client.InitNegotiation, called by the bridge outside the queue; ok: whether
\* CreateOffer and SetLocalDescription succeed
InitNegotiation(c, ok) ==
    /\ ~panicked
    /\ c \in created
    /\ ~bridgeOpen[c]
    /\ ok => CanSetLocalOffer(signalingState[c], connState[c])
    /\ panicked' = ~ok
    /\ signalingState' = [signalingState EXCEPT ![c] = IF ok THEN "have-local-offer" ELSE @]
    /\ canAddCandidate' = [canAddCandidate EXCEPT ![c] = @ \/ ok]
    /\ bridgeOpen' = [bridgeOpen EXCEPT ![c] = ok]
    /\ UNCHANGED <<clients, created, lifeVars, trackVars, iceVars, queueVars, allowVars>>
    /\ UNCHANGED <<isInRenegotiation, isInRemoteNegotiation, pendingRemoteRenegotiation,
                   NegotiationNeeded, initialTracksCount, remoteDescription, transceivers,
                   firstOfferTracks>>
    /\ UNCHANGED mediaVars

\* Client.CompleteNegotiation, called by the bridge with the answer to the
\* offer of InitNegotiation; ok: whether SetRemoteDescription succeeds
CompleteNegotiation(c, ok) ==
    /\ ~panicked
    /\ bridgeOpen[c]
    /\ ok => CanSetRemoteAnswer(signalingState[c], connState[c])
    /\ panicked' = ~ok
    /\ signalingState' = [signalingState EXCEPT ![c] = IF ok THEN "stable" ELSE @]
    /\ remoteDescription' = [remoteDescription EXCEPT ![c] = @ \/ ok]
    /\ bridgeOpen' = [bridgeOpen EXCEPT ![c] = FALSE]
    /\ UNCHANGED <<clients, created, lifeVars, trackVars, flagVars, iceVars, queueVars,
                   allowVars, transceivers, firstOfferTracks>>
    /\ UNCHANGED mediaVars

\* Client.AddICECandidate: the test of RemoteDescription(); with a remote
\* description the candidate goes to the peer connection (a candidate the
\* peer connection refuses is returned as an error and changes nothing)
AddICECandidate(c) ==
    /\ ~panicked
    /\ c \in created
    /\ addCandidateCall[c] = 0
    /\ Len(acceptedCandidates[c]) < MaxCandidates
    /\ LET candidate == Len(acceptedCandidates[c]) + 1
       IN  IF ~remoteDescription[c]
           THEN /\ addCandidateCall' = [addCandidateCall EXCEPT ![c] = candidate]
                /\ UNCHANGED <<appliedCandidates, acceptedCandidates>>
           ELSE /\ appliedCandidates' = [appliedCandidates EXCEPT ![c] = Append(@, candidate)]
                /\ acceptedCandidates' = [acceptedCandidates EXCEPT ![c] = Append(@, candidate)]
                /\ UNCHANGED addCandidateCall
    /\ UNCHANGED <<sfuVars, lifeVars, trackVars, flagVars, pcVars, queueVars, allowVars,
                   pendingRemoteCandidates, pendingLocalCandidates, sentCandidates,
                   iceCandidateCall, generatedCandidates>>
    /\ UNCHANGED mediaVars

\* Client.AddICECandidate: the append to pendingRemoteCandidates under the
\* mutex, and the return of nil
AddICECandidateAppend(c) ==
    /\ ~panicked
    /\ addCandidateCall[c] # 0
    /\ pendingRemoteCandidates' =
            [pendingRemoteCandidates EXCEPT ![c] = Append(@, addCandidateCall[c])]
    /\ acceptedCandidates' = [acceptedCandidates EXCEPT ![c] = Append(@, addCandidateCall[c])]
    /\ addCandidateCall' = [addCandidateCall EXCEPT ![c] = 0]
    /\ UNCHANGED <<sfuVars, lifeVars, trackVars, flagVars, pcVars, queueVars, allowVars,
                   pendingLocalCandidates, appliedCandidates, sentCandidates,
                   iceCandidateCall, generatedCandidates>>
    /\ UNCHANGED mediaVars

\* the OnICECandidate handler of the peer connection: the test of
\* canAddCandidate; when it is set the candidate goes to OnIceCandidate
OnICECandidate(c) ==
    /\ ~panicked
    /\ c \in created
    /\ iceCandidateCall[c] = 0
    /\ generatedCandidates[c] < MaxCandidates
    /\ generatedCandidates' = [generatedCandidates EXCEPT ![c] = @ + 1]
    /\ IF canAddCandidate[c]
       THEN /\ sentCandidates' = [sentCandidates EXCEPT ![c] = Append(@, generatedCandidates'[c])]
            /\ UNCHANGED iceCandidateCall
       ELSE /\ iceCandidateCall' = [iceCandidateCall EXCEPT ![c] = generatedCandidates'[c]]
            /\ UNCHANGED sentCandidates
    /\ UNCHANGED <<sfuVars, lifeVars, trackVars, flagVars, pcVars, queueVars, allowVars,
                   pendingRemoteCandidates, pendingLocalCandidates, appliedCandidates,
                   addCandidateCall, acceptedCandidates>>
    /\ UNCHANGED mediaVars

\* the OnICECandidate handler: the append to pendingLocalCandidates
OnICECandidateAppend(c) ==
    /\ ~panicked
    /\ iceCandidateCall[c] # 0
    /\ pendingLocalCandidates' =
            [pendingLocalCandidates EXCEPT ![c] = Append(@, iceCandidateCall[c])]
    /\ iceCandidateCall' = [iceCandidateCall EXCEPT ![c] = 0]
    /\ UNCHANGED <<sfuVars, lifeVars, trackVars, flagVars, pcVars, queueVars, allowVars,
                   pendingRemoteCandidates, appliedCandidates, sentCandidates,
                   addCandidateCall, acceptedCandidates, generatedCandidates>>
    /\ UNCHANGED mediaVars

(***************************************************************************)
(* One client and its signaling: the callers push, the consumer runs the   *)
(* items, the bridge and the peer connection act beside the queue.         *)
(***************************************************************************)
RenegotiateFailures == {"none", "CreateOffer", "SetLocalDescription"}

\* the moves explored beside the signaling: connect, lose the connection
SigMoves ==
    { <<<<"new", "new">>, <<"checking", "connecting">>>>,
      <<<<"checking", "connecting">>, <<"connected", "connected">>>>,
      <<<<"connected", "connected">>, <<"disconnected", "disconnected">>>> }

NextSig ==
    \E c \in SigClients :
        \/ NewClient(c)
        \/ ConnectionStateChange(c, SigMoves)
        \/ IsAllowNegotiationRead(c)
        \/ IsAllowNegotiation(c)
        \/ \E k \in 1..MaxNegotiate : Negotiate(c, k, MaxOfferTracks)
        \/ renegotiate(c)
        \/ allowRemoteRenegotiation(c)
        \/ \E fail \in NegotiateFailures : negotiateQueuOp(c, fail)
        \/ \E fail \in RenegotiateFailures : renegotiateQueuOp(c, fail)
        \/ \E out \in {"error", "notAnswer", "answer"} :
              \E fail \in RenegotiateFailures \cup {"SetRemoteDescription"} :
                  OnRenegotiationReturn(c, out, fail)
        \/ allowRemoteRenegotiationQueuOp(c)
        \/ InitNegotiation(c, TRUE)
        \/ InitNegotiation(c, FALSE)
        \/ CompleteNegotiation(c, TRUE)
        \/ CompleteNegotiation(c, FALSE)

SpecSig == Init /\ [][NextSig]_vars

(***************************************************************************)
(* One client and its Negotiate calls: offers and candidates arrive, the   *)
(* consumer answers, the client is stopped.                                *)
(***************************************************************************)
NextNeg ==
    \E c \in SigClients :
        \/ NewClient(c)
        \/ \E k \in 1..MaxNegotiate, n \in 0..MaxOfferTracks : Negotiate(c, k, n)
        \/ \E fail \in NegotiateFailures : negotiateQueuOp(c, fail)
        \/ AddICECandidate(c)
        \/ AddICECandidateAppend(c)
        \/ OnICECandidate(c)
        \/ OnICECandidateAppend(c)
        \/ UserStop(c)
        \/ StopClose(c, "user")
        \/ QueueDrain(c)

SpecNeg == Init /\ [][NextNeg]_vars

(***************************************************************************)
(* The goroutines the Go scheduler runs whenever they can take a step: the *)
(* consumer of the queue and the callback it waits for.                    *)
(***************************************************************************)
NextAllow ==
    \E c \in SigClients :
        \/ NewClient(c)
        \/ ConnectionStateChange(c, SigMoves)
        \/ IsAllowNegotiationRead(c)
        \/ IsAllowNegotiation(c)
        \/ renegotiate(c)
        \/ \E fail \in RenegotiateFailures : renegotiateQueuOp(c, fail)
        \/ \E out \in {"error", "notAnswer", "answer"} :
              \E fail \in RenegotiateFailures \cup {"SetRemoteDescription"} :
                  OnRenegotiationReturn(c, out, fail)

\* the callers of src/: nothing there calls allowRemoteRenegotiation
FairSpecAllow ==
    /\ Init /\ [][NextAllow]_vars
    /\ \A c \in SigClients :
        /\ WF_vars(IsAllowNegotiation(c))
        /\ WF_vars(\E fail \in RenegotiateFailures : renegotiateQueuOp(c, fail))
        /\ WF_vars(\E out \in {"error", "notAnswer", "answer"} :
                      \E fail \in RenegotiateFailures \cup {"SetRemoteDescription"} :
                          OnRenegotiationReturn(c, out, fail))

FairSpecNeg ==
    /\ SpecNeg
    /\ \A c \in SigClients :
        /\ WF_vars(\E fail \in NegotiateFailures : negotiateQueuOp(c, fail))
        /\ WF_vars(QueueDrain(c))
        /\ WF_vars(StopClose(c, "user"))

(***************************************************************************)
(* The claims.                                                             *)
(***************************************************************************)

\* C1: for every client, in every reachable state, isInRenegotiation and
\* isInRemoteNegotiation are never both true.
C1_NeverBothNegotiations ==
    \A c \in ClientIDs : ~(isInRenegotiation[c] /\ isInRemoteNegotiation[c])

\* C2: once IsAllowNegotiation has refused because a local renegotiation was
\* in progress (pendingRemoteRenegotiation is set) and that renegotiation
\* loop has completed, the signaling layer eventually observes the
\* OnAllowedRemoteRenegotiation callback.
C2_RefusedIsAllowedLater ==
    \A c \in SigClients :
        (allowResult[c] = "false" /\ pendingRemoteRenegotiation[c] /\ ~isInRenegotiation[c])
            ~> allowedRemote[c]

\* C3 (order): the queue of a client changes only by a push at its end or by
\* the consumer taking its head, and the consumer takes nothing while an
\* item is running.
C3_Fifo ==
    \A c \in SigClients :
        \/ queue'[c] = queue[c]
        \/ (queue'[c] # <<>> /\ queue'[c] = Append(queue[c], queue'[c][Len(queue'[c])]))
        \/ (queue[c] # <<>> /\ queue'[c] = Tail(queue[c]) /\ consumer[c] = "idle")

\* C3 (transactions): an offer/answer round of Renegotiate and one of
\* InitNegotiation/CompleteNegotiation are never open together.
C3_OneTransaction ==
    \A c \in SigClients : ~(consumer[c] = "OnRenegotiation" /\ bridgeOpen[c])

\* C3: the signaling operations on one peer connection are totally ordered
\* by the client's queue: items are consumed in push order, each runs to
\* completion before the next, and no description-setting transaction
\* interleaves with another.
C3_TotalOrder == [][C3_Fifo]_vars /\ []C3_OneTransaction

\* C4: every call of Negotiate eventually returns an answer or an error (a
\* cancellation error if the client's context is cancelled while the item is
\* pending).
C4_NegotiateReturns ==
    \A c \in SigClients : \A k \in 1..MaxNegotiate :
        (negotiateCall[c][k] = "waiting")
            ~> (negotiateCall[c][k] \in {"answer", "error", "cancelled"})

\* C5: when SetRemoteDescription fails in a Negotiate operation, the caller
\* gets the error and isInRemoteNegotiation, isInRenegotiation,
\* canAddCandidate, the pending candidate buffers and initialTracksCount are
\* what they were before the operation.
C5_FailedNegotiateChangesNothing ==
    [][\A c \in SigClients :
        (/\ ~cancelled[c]
         /\ queue[c] # <<>>
         /\ Head(queue[c]).op = "negotiate"
         /\ queue'[c] = Tail(queue[c])
         /\ negotiateStage'[c] = "SetRemoteDescription")
        => /\ negotiateCall'[c][Head(queue[c]).call] = "error"
           /\ isInRemoteNegotiation'[c] = isInRemoteNegotiation[c]
           /\ isInRenegotiation'[c] = isInRenegotiation[c]
           /\ canAddCandidate'[c] = canAddCandidate[c]
           /\ pendingRemoteCandidates'[c] = pendingRemoteCandidates[c]
           /\ pendingLocalCandidates'[c] = pendingLocalCandidates[c]
           /\ initialTracksCount'[c] = initialTracksCount[c]]_vars

\* C6: once the State of a client is ClientStateEnded, no later step (a
\* connection state change, a track, Stop, the idle timer) changes it.
C6_EndedStaysEnded ==
    [][\A c \in ClientIDs :
        State[c] = ClientStateEnded => State'[c] = ClientStateEnded]_vars

\* C7: Stop on a client whose State is ClientStateEnded returns
\* ErrClientStoped and neither closes the peer connection nor runs
\* afterClosed, whoever calls it and however often.
C7_StopOnEnded ==
    [][\A c \in ClientIDs : State[c] = ClientStateEnded =>
        /\ stopping'[c] \subseteq stopping[c]
        /\ \A k \in StopCallers \ stopping[c] :
            /\ stopResult'[c][k] \in {stopResult[c][k], "ErrClientStoped"}
            /\ stopResult'[c][k] # stopResult[c][k] =>
                   /\ connState'[c] = connState[c]
                   /\ cancelled'[c] = cancelled[c]
                   /\ clients' = clients
                   /\ tracks' = tracks]_vars

\* C7, reached: the user's Stop has closed the client, then the Stop of the
\* idle timer returned ErrClientStoped
C7_Witness ==
    \E c \in ClientIDs :
        /\ stopResult[c]["user"] = "nil"
        /\ stopResult[c]["timer"] = "ErrClientStoped"
        /\ connState[c] = "closed"

\* C8: every client in the clients map of the SFU has State # ClientStateEnded
\* (stated where no Stop of the client is between its two halves).
C8_NoEndedClientInMap ==
    \A c \in clients : stopping[c] = {} => State[c] # ClientStateEnded

\* C9: on every subscriber, each key of publishedTracks has a sender on the
\* subscriber's peer connection (the count of forwarded tracks rests on it),
\* after a failed AddTrack too.
C9_PublishedHasSender ==
    \A c \in ClientIDs :
        \A k \in DOMAIN publishedTracks[c] : publishedTracks[c][k] \in senders[c]

\* C10: after removePublishedTrack has returned true for a key on a
\* subscriber, GetCurrentTracks on that subscriber never contains the key.
C10_RemovedStaysRemoved ==
    \A c \in ClientIDs :
        GetCurrentTracks(publishedTracks[c], connState[c]) \cap removedTracks[c] = {}

\* C11: when the peer connection of a publisher becomes closed while a
\* subscriber holds one of its tracks, a renegotiate is started for that
\* subscriber (the handler that removes the tracks is the one that starts it).
C11_ClosedPublisherRenegotiates ==
    [][\A p \in ClientIDs : \A x \in clients \ {p} :
        (/\ connState[p] # "closed"
         /\ connState'[p] = "closed"
         /\ \E t \in MapValues(tracks[p]) : TrackKey(t) \in DOMAIN publishedTracks[x])
        => x \in renegotiateSpawned']_vars

\* C12: once the peer connection of a publisher is closed, no step adds one
\* of its tracks (the keys of its pendingPublishedTracks) to the
\* publishedTracks of another client.
C12_EndedTracksNotAdded ==
    [][\A p \in ClientIDs : \A x \in ClientIDs \ {p} :
        connState[p] = "closed" =>
            \A k \in DOMAIN pendingPublishedTracks[p] :
                k \in DOMAIN publishedTracks'[x] => k \in DOMAIN publishedTracks[x]]_vars

(***************************************************************************)
(* One client and its candidates: remote candidates arrive, local ones are *)
(* generated, offers are negotiated, the bridge negotiates beside the      *)
(* queue.                                                                  *)
(***************************************************************************)
NextIce ==
    \E c \in SigClients :
        \/ NewClient(c)
        \/ \E k \in 1..MaxNegotiate : Negotiate(c, k, MaxOfferTracks)
        \/ \E fail \in NegotiateFailures : negotiateQueuOp(c, fail)
        \/ AddICECandidate(c)
        \/ AddICECandidateAppend(c)
        \/ OnICECandidate(c)
        \/ OnICECandidateAppend(c)
        \/ InitNegotiation(c, TRUE)
        \/ InitNegotiation(c, FALSE)
        \/ CompleteNegotiation(c, TRUE)
        \/ CompleteNegotiation(c, FALSE)

SpecIce == Init /\ [][NextIce]_vars

\* the elements of a sequence; a sequence without a repeated element
Elements(q) == {q[i] : i \in 1..Len(q)}
NoRepeat(q) == \A i, j \in 1..Len(q) : q[i] = q[j] => i = j

\* C13: every remote candidate AddICECandidate has accepted is, exactly once,
\* either applied to the peer connection or still in pendingRemoteCandidates:
\* none is lost and none is applied twice, whatever Negotiate runs meanwhile.
C13_RemoteCandidatesKept ==
    \A c \in SigClients :
        LET all == appliedCandidates[c] \o pendingRemoteCandidates[c]
        IN  NoRepeat(all) /\ Elements(all) = Elements(acceptedCandidates[c])

\* C14: no local candidate is given to OnIceCandidate before the local
\* description is set; every generated candidate is, exactly once, delivered,
\* buffered or still in its handler; and once the local description is set
\* nothing stays in pendingLocalCandidates.
C14_LocalCandidatesDelivered ==
    \A c \in SigClients :
        LET all == sentCandidates[c] \o pendingLocalCandidates[c]
        IN  /\ sentCandidates[c] # <<>> => canAddCandidate[c]
            /\ NoRepeat(all)
            /\ Elements(all) \cup ({iceCandidateCall[c]} \ {0}) = 1..generatedCandidates[c]
            /\ (~panicked /\ canAddCandidate[c] /\ iceCandidateCall[c] = 0)
                   => pendingLocalCandidates[c] = <<>>

(***************************************************************************)
(* Publishing the tracks of the first offer.                               *)
(***************************************************************************)
\* the transport hands a track of an answered offer to the OnTrack handler:
\* a receiver starts once the answer is set, and there are no more tracks
\* than the offers added transceivers
OfferedOnTrack(c, t) ==
    /\ remoteDescription[c]
    /\ signalingState[c] = "stable"
    /\ Cardinality(DOMAIN pendingPublishedTracks[c]) < transceivers[c]
    /\ OnTrack(c, t)

NextPublish ==
    \E c \in SigClients :
        \/ NewClient(c)
        \/ ConnectionStateChange(c, SigMoves)
        \/ \E k \in 1..MaxNegotiate, n \in 0..MaxOfferTracks : Negotiate(c, k, n)
        \/ \E fail \in NegotiateFailures : negotiateQueuOp(c, fail)
        \/ \E t \in TrackPool : OfferedOnTrack(c, t)

SpecPublish == Init /\ [][NextPublish]_vars

\* C15: for a publisher whose first remote offer carries N tracks, no
\* on_track_published firing carries fewer than N tracks, and once N tracks
\* are received exactly one firing carries the N tracks of the initial set
C15_InitialTracksPublishedOnce ==
    \A c \in SigClients :
        LET N == firstOfferTracks[c]
            fired == trackPublished[c]
        IN  N > 0 =>
              /\ \A i \in 1..Len(fired) : Cardinality(fired[i]) >= N
              /\ Cardinality(DOMAIN pendingPublishedTracks[c]) >= N =>
                    Cardinality({i \in 1..Len(fired) : Cardinality(fired[i]) = N}) = 1

(***************************************************************************)
(* One SimulcastClientTrack and the reader loops of the three layers of    *)
(* its source, each calling push with the packets of its layer.            *)
(***************************************************************************)
\* the value a uint16 wraps at
Uint16 == 65536
\* a uint32 as its two 16 bit halves <<high, low>>: the uint32 of an integer,
\* the sum and the difference of two uint32, and the uint16 of a uint32
U32(x) == <<(x \div Uint16) % Uint16, x % Uint16>>
Add32(a, b) ==
    LET low == a[2] + b[2]
    IN  <<(a[1] + b[1] + (low \div Uint16)) % Uint16, low % Uint16>>
Sub32(a, b) ==
    LET low == a[2] - b[2]
    IN  <<(a[1] - b[1] + (low \div Uint16)) % Uint16, low % Uint16>>
ToUint16(a) == a[2]
\* the counter of a new track, and of one that has written 65535 packets
SequenceStarts == {U32(0), U32(65535)}
\* the RTP timestamp the SFU starts the outbound stream at, and the ones the
\* publisher starts its layers at: all layers alike, or each on its own
BaseTimestamps == {U32(3000)}
LayerBaseTimestamps ==
    { [l \in Layers |-> U32(3000)],
      [high |-> U32(93000), mid |-> U32(48000), low |-> U32(3000)] }

\* the track is attached to its source: the base timestamps the source
\* captured, and the counter the track starts from
newSimulcastClientTrack(seq, base, bases) ==
    /\ \A l \in Layers : pushAt[l] = "new"
    /\ sequenceNumber' = seq
    /\ baseTS' = base
    /\ remoteTrackBaseTS' = bases
    /\ pushAt' = [l \in Layers |-> "idle"]
    /\ UNCHANGED <<lastQuality, lastTimestamp, clock, pushed, pushLocal, written>>
    /\ UNCHANGED <<roomVars, endedVars, metaVars, idleVars, callVars, qualityVars, lockVars>>

\* the publisher moves on to the next frame
NextFrame ==
    /\ \A l \in Layers : pushAt[l] # "new"
    /\ clock < MaxClock
    /\ clock' = clock + 1
    /\ UNCHANGED <<sequenceNumber, lastQuality, lastTimestamp, baseTS, remoteTrackBaseTS,
                   pushed, pushAt, pushLocal, written>>
    /\ UNCHANGED <<roomVars, endedVars, metaVars, idleVars, callVars, qualityVars, lockVars>>

\* the packet the reader loop of a layer reads for the current frame
LayerPacket(l, keyframe) ==
    [Timestamp |-> Add32(remoteTrackBaseTS[l], U32(clock * TsStep)),
     SequenceNumber |-> 0,
     keyframe |-> keyframe,
     frame |-> clock]

\* SimulcastClientTrack.push up to the PLI: the load of lastQuality, the test
\* of the connection and the test for a keyframe
push(l, keyframe, connected) ==
    /\ pushAt[l] = "idle"
    /\ pushed < MaxPackets
    /\ pushed' = pushed + 1
    /\ IF ~connected \/ (~keyframe /\ lastQuality = QualityNone)
       THEN UNCHANGED <<pushAt, pushLocal>>
       ELSE /\ pushAt' = [pushAt EXCEPT ![l] = "loaded"]
            /\ pushLocal' = [pushLocal EXCEPT ![l] =
                    [rtp |-> LayerPacket(l, keyframe), lastQuality |-> lastQuality,
                     trackQuality |-> QualityNone, queried |-> FALSE]]
    /\ UNCHANGED <<sequenceNumber, lastQuality, lastTimestamp, baseTS, remoteTrackBaseTS,
                   clock, written>>
    /\ UNCHANGED <<roomVars, endedVars, metaVars, idleVars, callVars, qualityVars, lockVars>>

\* SimulcastClientTrack.push: the choice of trackQuality, got: what
\* bitrateController.GetQuality answers
pushGetQuality(l, got) ==
    LET loc == pushLocal[l]
        query == loc.rtp.keyframe /\ lastTimestamp # loc.rtp.Timestamp
        trackQuality == IF query THEN got ELSE loc.lastQuality
    IN
    /\ pushAt[l] = "loaded"
    /\ ~query => got = QualityNone
    /\ IF query /\ trackQuality = QualityNone
       THEN /\ lastQuality' = QualityNone
            /\ pushAt' = [pushAt EXCEPT ![l] = "idle"]
            /\ pushLocal' = [pushLocal EXCEPT ![l] = <<>>]
       ELSE /\ UNCHANGED lastQuality
            /\ IF trackQuality = l
               THEN /\ pushAt' = [pushAt EXCEPT ![l] = "chosen"]
                    /\ pushLocal' = [pushLocal EXCEPT ![l] =
                            [loc EXCEPT !.trackQuality = trackQuality, !.queried = query]]
               ELSE /\ pushAt' = [pushAt EXCEPT ![l] = "idle"]
                    /\ pushLocal' = [pushLocal EXCEPT ![l] = <<>>]
    /\ UNCHANGED <<sequenceNumber, lastTimestamp, baseTS, remoteTrackBaseTS, clock, pushed,
                   written>>
    /\ UNCHANGED <<roomVars, endedVars, metaVars, idleVars, callVars, qualityVars, lockVars>>

\* the rewritten timestamp, in uint32 arithmetic
RebasedTimestamp(base, ts, remoteBase) ==
    Add32(base, Sub32(Sub32(ts, remoteBase), remoteBase))

\* SimulcastClientTrack.push: lastTimestamp.Store, the rewrite of the
\* timestamp and sequenceNumber.Add(1)
pushRewrite(l) ==
    LET loc == pushLocal[l]
    IN
    /\ pushAt[l] = "chosen"
    /\ lastTimestamp' = loc.rtp.Timestamp
    /\ sequenceNumber' = Add32(sequenceNumber, U32(1))
    /\ pushLocal' = [pushLocal EXCEPT ![l].rtp.Timestamp =
            RebasedTimestamp(baseTS, loc.rtp.Timestamp, remoteTrackBaseTS[l])]
    /\ pushAt' = [pushAt EXCEPT ![l] = "added"]
    /\ UNCHANGED <<lastQuality, baseTS, remoteTrackBaseTS, clock, pushed, written>>
    /\ UNCHANGED <<roomVars, endedVars, metaVars, idleVars, callVars, qualityVars, lockVars>>

\* SimulcastClientTrack.push: sequenceNumber.Load and the store of lastQuality
pushNumber(l) ==
    /\ pushAt[l] = "added"
    /\ pushLocal' = [pushLocal EXCEPT ![l].rtp.SequenceNumber = ToUint16(sequenceNumber)]
    /\ lastQuality' = IF pushLocal[l].lastQuality # l THEN l ELSE lastQuality
    /\ pushAt' = [pushAt EXCEPT ![l] = "numbered"]
    /\ UNCHANGED <<sequenceNumber, lastTimestamp, baseTS, remoteTrackBaseTS, clock, pushed,
                   written>>
    /\ UNCHANGED <<roomVars, endedVars, metaVars, idleVars, callVars, qualityVars, lockVars>>

\* SimulcastClientTrack.push: localTrack.WriteRTP under t.mu
pushWrite(l) ==
    /\ pushAt[l] = "numbered"
    /\ written' = Append(written, [quality |-> l, rtp |-> pushLocal[l].rtp])
    /\ pushAt' = [pushAt EXCEPT ![l] = "idle"]
    /\ pushLocal' = [pushLocal EXCEPT ![l] = <<>>]
    /\ UNCHANGED <<sequenceNumber, lastQuality, lastTimestamp, baseTS, remoteTrackBaseTS,
                   clock, pushed>>
    /\ UNCHANGED <<roomVars, endedVars, metaVars, idleVars, callVars, qualityVars, lockVars>>

\* one step of the reader loop of layer l
ReaderStep(l) ==
    \/ \E keyframe, connected \in BOOLEAN : push(l, keyframe, connected)
    \/ \E got \in QualityLevels : pushGetQuality(l, got)
    \/ pushRewrite(l)
    \/ pushNumber(l)
    \/ pushWrite(l)

\* the three reader loops run concurrently
NextSimulcast ==
    \/ \E seq \in SequenceStarts, base \in BaseTimestamps,
          bases \in LayerBaseTimestamps : newSimulcastClientTrack(seq, base, bases)
    \/ NextFrame
    \/ \E l \in Layers : ReaderStep(l)

SpecSimulcast == Init /\ [][NextSimulcast]_vars

\* one push at a time: no reader loop calls push while another is inside it
NextSimulcastSerial ==
    \/ \E seq \in SequenceStarts, base \in BaseTimestamps,
          bases \in LayerBaseTimestamps : newSimulcastClientTrack(seq, base, bases)
    \/ NextFrame
    \/ \E l \in Layers : (\A o \in Layers \ {l} : pushAt[o] = "idle") /\ ReaderStep(l)

SpecSimulcastSerial == Init /\ [][NextSimulcastSerial]_vars

\* C16: the sequence numbers of the packets a simulcast client track writes
\* each exceed the one written before by exactly 1 modulo 2^16, across layer
\* switches and with the three reader loops calling push concurrently
C16_SequenceNumbersDense ==
    \A i \in 1..(Len(written) - 1) :
        written[i + 1].rtp.SequenceNumber = (written[i].rtp.SequenceNumber + 1) % Uint16

\* C17: the timestamps of the packets a simulcast client track writes never
\* decrease in write order (compared as RTP does, modulo 2^32), also across a
\* switch between layers whose base timestamps differ
C17_TimestampsNonDecreasing ==
    \A i \in 1..(Len(written) - 1) :
        Sub32(written[i + 1].rtp.Timestamp, written[i].rtp.Timestamp)[1] < Uint16 \div 2

\* C18: lastQuality changes only while a keyframe packet whose timestamp
\* differs from lastTimestamp is processed; the first packet written, and the
\* first written of a layer other than the one written before, is a keyframe,
\* so that no packet of the previous layer follows a switch
C18_SwitchOnlyAtKeyframe ==
    /\ [](\A i \in 1..Len(written) :
            (i = 1 \/ written[i - 1].quality # written[i].quality)
                => written[i].rtp.keyframe)
    /\ [][lastQuality' # lastQuality =>
            \E l \in Layers :
                /\ pushAt[l] \in {"loaded", "added"}
                /\ pushLocal[l].rtp.keyframe
                /\ IF pushAt[l] = "loaded"
                   THEN lastTimestamp # pushLocal[l].rtp.Timestamp
                   ELSE pushLocal[l].queried]_vars

(***************************************************************************)
(* The end of a SimulcastClientTrack: each layer of the source that closes *)
(* calls onTrackEnded.                                                     *)
(***************************************************************************)
\* SimulcastClientTrack.OnTrackEnded
OnTrackEnded(f) ==
    /\ f = Len(onTrackEndedCallbacks) + 1
    /\ onTrackEndedCallbacks' = Append(onTrackEndedCallbacks, f)
    /\ UNCHANGED <<isEnded, endedAt, callbackRuns>>
    /\ UNCHANGED <<roomVars, pushVars, metaVars, idleVars, callVars, qualityVars, lockVars>>

\* SimulcastClientTrack.onTrackEnded: the test of isEnded, before the lock
onTrackEndedLoad(l) ==
    /\ endedAt[l] = "idle"
    /\ endedAt' = [endedAt EXCEPT ![l] = IF isEnded THEN "returned" ELSE "loaded"]
    /\ UNCHANGED <<isEnded, onTrackEndedCallbacks, callbackRuns>>
    /\ UNCHANGED <<roomVars, pushVars, metaVars, idleVars, callVars, qualityVars, lockVars>>

\* SimulcastClientTrack.onTrackEnded: under t.mu, the callbacks and the
\* store of isEnded
onTrackEnded(l) ==
    /\ endedAt[l] = "loaded"
    /\ callbackRuns' = [f \in 1..MaxCallbacks |->
            IF f <= Len(onTrackEndedCallbacks) THEN callbackRuns[f] + 1
            ELSE callbackRuns[f]]
    /\ isEnded' = TRUE
    /\ endedAt' = [endedAt EXCEPT ![l] = "returned"]
    /\ UNCHANGED onTrackEndedCallbacks
    /\ UNCHANGED <<roomVars, pushVars, metaVars, idleVars, callVars, qualityVars, lockVars>>

\* callbacks are registered on a track that has not ended; the layers close
\* independently of each other
NextEnded ==
    \/ \E f \in 1..MaxCallbacks : ~isEnded /\ OnTrackEnded(f)
    \/ \E l \in Layers : onTrackEndedLoad(l)
    \/ \E l \in Layers : onTrackEnded(l)

SpecEnded == Init /\ [][NextEnded]_vars

\* C19: each callback registered with a simulcast client track runs exactly
\* once in total: never twice, also when several layers trigger the end
\* concurrently, and once the track has ended every one has run
C19_CallbacksRunOnce ==
    \A f \in 1..Len(onTrackEndedCallbacks) :
        /\ callbackRuns[f] <= 1
        /\ isEnded => callbackRuns[f] = 1

(***************************************************************************)
(* Metadata and the subscriptions to its changes.                          *)
(***************************************************************************)
MetaKeys == {"a", "b"}
MetaValues == {"x", "y"}
\* the slice s without its element at the Go index idx:
\* append(s[:idx], s[idx+1:]...)
RemoveAt(s, idx) == SubSeq(s, 1, idx) \o SubSeq(s, idx + 2, Len(s))

\* Metadata.onChanged: every callback of the slice is called, in order
onChanged ==
    /\ notified' = Append(notified, onChangedCallbacks)

\* Metadata.OnChanged: subscription i holds the index its callback is
\* appended at
OnChanged(i) ==
    /\ ~metaPanicked
    /\ subscriptions[i] = -1
    /\ \A j \in 1..(i - 1) : subscriptions[j] # -1
    /\ subscriptions' = [subscriptions EXCEPT ![i] = Len(onChangedCallbacks)]
    /\ onChangedCallbacks' = Append(onChangedCallbacks, i)
    /\ UNCHANGED <<unsubscribed, meta, notified, metaCalls, metaPanicked>>
    /\ UNCHANGED <<roomVars, pushVars, endedVars, idleVars, callVars, qualityVars, lockVars>>

\* OnMetaChangedSubscription.Unsubscribe: the slice expression panics when
\* idx+1 is beyond the length of the slice
Unsubscribe(i) ==
    /\ ~metaPanicked
    /\ subscriptions[i] # -1
    /\ unsubscribed[i] < 2
    /\ unsubscribed' = [unsubscribed EXCEPT ![i] = @ + 1]
    /\ IF subscriptions[i] + 1 > Len(onChangedCallbacks)
       THEN /\ metaPanicked' = TRUE
            /\ UNCHANGED onChangedCallbacks
       ELSE /\ onChangedCallbacks' = RemoveAt(onChangedCallbacks, subscriptions[i])
            /\ UNCHANGED metaPanicked
    /\ UNCHANGED <<subscriptions, meta, notified, metaCalls>>
    /\ UNCHANGED <<roomVars, pushVars, endedVars, idleVars, callVars, qualityVars, lockVars>>

ErrMetaNotFound == "meta: metadata not found"

\* Metadata.Get: the value and the error returned
Get(key) ==
    IF key \notin DOMAIN meta
    THEN [value |-> "nil", err |-> ErrMetaNotFound]
    ELSE [value |-> meta[key], err |-> "nil"]

\* Metadata.Set
Set(key, value) ==
    /\ ~metaPanicked
    /\ Len(metaCalls) < MaxChanges
    /\ meta' = MapPut(meta, key, value)
    /\ onChanged
    /\ metaCalls' = Append(metaCalls, [op |-> "set", key |-> key, value |-> value, err |-> "nil"])
    /\ UNCHANGED <<onChangedCallbacks, subscriptions, unsubscribed, metaPanicked>>
    /\ UNCHANGED <<roomVars, pushVars, endedVars, idleVars, callVars, qualityVars, lockVars>>

DeleteKeepsKey(key) ==
    /\ ~metaPanicked
    /\ Len(metaCalls) < MaxChanges
    /\ IF key \notin DOMAIN meta
       THEN /\ metaCalls' = Append(metaCalls,
                    [op |-> "delete", key |-> key, value |-> "nil", err |-> ErrMetaNotFound])
            /\ UNCHANGED <<meta, notified>>
       ELSE /\ UNCHANGED meta
            /\ onChanged
            /\ metaCalls' = Append(metaCalls,
                    [op |-> "delete", key |-> key, value |-> "nil", err |-> "nil"])
    /\ UNCHANGED <<onChangedCallbacks, subscriptions, unsubscribed, metaPanicked>>
    /\ UNCHANGED <<roomVars, pushVars, endedVars, idleVars, callVars, qualityVars, lockVars>>

\* Metadata.Delete: of a key that is not set it returns ErrMetaNotFound and
\* calls no callback
Delete(key) ==
    /\ ~metaPanicked
    /\ Len(metaCalls) < MaxChanges
    /\ IF key \notin DOMAIN meta
       THEN /\ metaCalls' = Append(metaCalls,
                    [op |-> "delete", key |-> key, value |-> "nil", err |-> ErrMetaNotFound])
            /\ UNCHANGED <<meta, notified>>
       ELSE /\ meta' = MapDelete(meta, key)
            /\ onChanged
            /\ metaCalls' = Append(metaCalls,
                    [op |-> "delete", key |-> key, value |-> "nil", err |-> "nil"])
    /\ UNCHANGED <<onChangedCallbacks, subscriptions, unsubscribed, metaPanicked>>
    /\ UNCHANGED <<roomVars, pushVars, endedVars, idleVars, callVars, qualityVars, lockVars>>

NextMeta ==
    \/ \E i \in 1..MaxSubscriptions : OnChanged(i)
    \/ \E i \in 1..MaxSubscriptions : Unsubscribe(i)
    \/ \E key \in MetaKeys, value \in MetaValues : Set(key, value)
    \/ \E key \in MetaKeys : Delete(key)

SpecMeta == Init /\ [][NextMeta]_vars

\* the sequence q without the element x
Without(q, x) ==
    LET Keep(y) == y # x
    IN  SelectSeq(q, Keep)

\* C20: an Unsubscribe removes the callback of its own subscription and
\* leaves every other callback registered, in whatever order subscriptions
\* are cancelled; a second Unsubscribe of the same subscription changes
\* nothing; and no Set or Delete after an Unsubscribe calls its callback
C20_UnsubscribeRemovesOwnCallback ==
    [][/\ \A i \in 1..MaxSubscriptions :
            unsubscribed'[i] # unsubscribed[i] =>
                /\ ~metaPanicked'
                /\ onChangedCallbacks' = Without(onChangedCallbacks, i)
       /\ notified' # notified =>
            \A i \in 1..MaxSubscriptions :
                unsubscribed[i] > 0 => i \notin Elements(notified'[Len(notified')])]_vars

\* the map alone: Set and Delete calls, no subscription
NextMap ==
    \/ \E key \in MetaKeys, value \in MetaValues : Set(key, value)
    \/ \E key \in MetaKeys : Delete(key)

SpecMap == Init /\ [][NextMap]_vars

\* what the calls made so far leave under a key: the value of the last Set
\* of the key that no later successful Delete of it follows
RECURSIVE LastSet(_, _)
LastSet(calls, key) ==
    IF calls = <<>>
    THEN [value |-> "nil", err |-> ErrMetaNotFound]
    ELSE LET last == calls[Len(calls)]
             before == SubSeq(calls, 1, Len(calls) - 1)
         IN  IF last.key # key \/ last.err # "nil"
             THEN LastSet(before, key)
             ELSE IF last.op = "set"
                  THEN [value |-> last.value, err |-> "nil"]
                  ELSE [value |-> "nil", err |-> ErrMetaNotFound]

\* C21: Get of a key returns the value of the most recent Set of it that no
\* successful Delete follows, and ErrMetaNotFound otherwise; a Delete returned
\* ErrMetaNotFound exactly when the key was absent, so the second of two
\* Deletes of a key fails and changes nothing
C21_MetadataIsAMap ==
    /\ \A key \in MetaKeys : Get(key) = LastSet(metaCalls, key)
    /\ \A i \in 1..Len(metaCalls) :
            metaCalls[i].op = "delete" =>
                (metaCalls[i].err = ErrMetaNotFound
                    <=> LastSet(SubSeq(metaCalls, 1, i - 1), metaCalls[i].key).err
                            = ErrMetaNotFound)

C21_Witness ==
    /\ Len(metaCalls) = 3
    /\ metaCalls[1].op = "set"
    /\ metaCalls[2] = [op |-> "delete", key |-> metaCalls[1].key, value |-> "nil", err |-> "nil"]
    /\ metaCalls[3] = [op |-> "delete", key |-> metaCalls[1].key, value |-> "nil",
                       err |-> ErrMetaNotFound]
    /\ Get(metaCalls[1].key).err = ErrMetaNotFound

\* C22: an idle timer that was cancelled, because the peer connection went
\* from Failed to Connecting before the 30 seconds were over, does not stop
\* the client; only a timer that runs out does
C22_CancelledTimerDoesNotStop ==
    [][\A c \in SigClients :
        (idleTimer[c] = "cancelled" /\ idleTimer'[c] = "none")
            => (State'[c] = State[c] /\ "timer" \notin stopping'[c])]_vars

(***************************************************************************)
(* The idle timer of the room: the goroutine New starts, the goroutine     *)
(* SFU.startIdleTimeout starts, and SFU.Stop.                              *)
(***************************************************************************)
\* SFU.startIdleTimeout: the goroutine enters its select
SFUstartIdleTimeout ==
    /\ sfuTimer = "none"
    /\ sfuTimer' = "select"
    /\ UNCHANGED <<idleChan, sfuContext, sfuLoop>>
    /\ UNCHANGED <<roomVars, pushVars, endedVars, metaVars, callVars, qualityVars, lockVars>>

\* the goroutine of SFU.startIdleTimeout: time.After(50 * time.Minute) is
\* ready and the goroutine goes on to `s.idleChan <- true'; a send on a nil
\* channel never completes
TimeAfter ==
    /\ sfuTimer = "select"
    /\ sfuTimer' = "send"
    /\ UNCHANGED <<idleChan, sfuContext, sfuLoop>>
    /\ UNCHANGED <<roomVars, pushVars, endedVars, metaVars, callVars, qualityVars, lockVars>>

\* the goroutine of SFU.startIdleTimeout: localCtx.Done() is ready
TimerContextDone ==
    /\ sfuTimer = "select"
    /\ sfuContext = "done"
    /\ sfuTimer' = "returned"
    /\ UNCHANGED <<idleChan, sfuContext, sfuLoop>>
    /\ UNCHANGED <<roomVars, pushVars, endedVars, metaVars, callVars, qualityVars, lockVars>>

\* the context given to New is cancelled by its owner
ContextCancelled ==
    /\ sfuContext = "live"
    /\ sfuContext' = "done"
    /\ UNCHANGED <<idleChan, sfuLoop, sfuTimer>>
    /\ UNCHANGED <<roomVars, pushVars, endedVars, metaVars, callVars, qualityVars, lockVars>>

\* the goroutine of New: sfu.context.Done() is ready (a receive from a nil
\* idleChan never is), the loop is left, cancel() and sfu.Stop() are called
LoopContextDone ==
    /\ sfuLoop = "select"
    /\ sfuContext = "done"
    /\ sfuLoop' = "stopping"
    /\ UNCHANGED <<idleChan, sfuContext, sfuTimer>>
    /\ UNCHANGED <<roomVars, pushVars, endedVars, metaVars, callVars, qualityVars, lockVars>>

\* SFU.Stop: client.PeerConnection.Close() of one client
SFUStopClose(c) ==
    /\ sfuLoop = "stopping"
    /\ c \in clients
    /\ ConnectionClosed(c)

\* SFU.Stop: onStop and s.cancel(), after the loop over the clients
SFUStop ==
    /\ sfuLoop = "stopping"
    /\ \A c \in clients : connState[c] = "closed"
    /\ sfuLoop' = "returned"
    /\ sfuContext' = "done"
    /\ UNCHANGED <<idleChan, sfuTimer>>
    /\ UNCHANGED <<roomVars, pushVars, endedVars, metaVars, callVars, qualityVars, lockVars>>

NextIdle ==
    \/ \E c \in ClientIDs : NewClient(c)
    \/ \E c \in ClientIDs : ConnectionStateChange(c, SigMoves)
    \/ SFUstartIdleTimeout
    \/ TimeAfter
    \/ TimerContextDone
    \/ ContextCancelled
    \/ LoopContextDone
    \/ \E c \in ClientIDs : SFUStopClose(c)
    \/ SFUStop

SpecIdle == Init /\ [][NextIdle]_vars

\* C23: when the idle period of the room passes without an event, the room
\* shuts down: the idle timer's goroutine is never left waiting on an idle
\* channel on which no send can complete
C23_IdleTimerNeverBlocked ==
    ~(sfuTimer = "send" /\ idleChan = "nil")

\* C24: a Renegotiate that returned early because a remote negotiation was
\* in progress is retried when the Negotiate completes: the client is never
\* left connected, not ended and idle (nothing queued, no negotiation
\* running, the Negotiate answered) with NegotiationNeeded still set, where
\* only a further Renegotiate could create the offer
C24_DeferredRenegotiationRetried ==
    \A c \in SigClients :
        ~(/\ NegotiationNeeded[c]
          /\ ~isInRemoteNegotiation[c]
          /\ ~isInRenegotiation[c]
          /\ queue[c] = <<>>
          /\ consumer[c] = "idle"
          /\ connState[c] = "connected"
          /\ State[c] # ClientStateEnded
          /\ signalingState[c] = "stable"
          /\ \E k \in 1..MaxNegotiate : negotiateCall[c][k] = "answer")

\* C25: a Negotiate operation taken from the queue while isInRenegotiation
\* is set does not apply the remote offer: it leaves the remote description,
\* the signaling state and isInRemoteNegotiation as they were
C25_NegotiateOnlyOutsideRenegotiation ==
    [][\A c \in SigClients :
        (/\ ~cancelled[c]
         /\ queue[c] # <<>>
         /\ Head(queue[c]).op = "negotiate"
         /\ queue'[c] = Tail(queue[c])
         /\ isInRenegotiation[c])
        => /\ remoteDescription'[c] = remoteDescription[c]
           /\ signalingState'[c] = signalingState[c]
           /\ transceivers'[c] = transceivers[c]
           /\ isInRemoteNegotiation'[c] = isInRemoteNegotiation[c]]_vars

\* C26: whenever the local renegotiation loop ends, whether it ran to its
\* end or was aborted by a failing CreateOffer, SetLocalDescription,
\* OnRenegotiation, answer type or SetRemoteDescription, isInRenegotiation
\* is false afterwards
C26_LoopEndClearsFlag ==
    [][\A c \in SigClients :
        ((\/ /\ consumer[c] = "OnRenegotiation"
             /\ consumer'[c] = "idle"
          \/ /\ consumer[c] = "idle"
             /\ ~cancelled[c]
             /\ queue[c] # <<>>
             /\ Head(queue[c]).op = "renegotiate"
             /\ queue'[c] = Tail(queue[c])
             /\ ~isInRemoteNegotiation[c]
             /\ ~isInRenegotiation[c]
             /\ consumer'[c] = "idle"))
        => ~isInRenegotiation'[c]]_vars

(***************************************************************************)
(* Buffered tracks.  broadcastTracks runs on the goroutine of the          *)
(* publisher's OnTrack handler, the Connected handler of a subscriber on   *)
(* another one: each call of Client.addTrack is a step of its own, and a   *)
(* call that found the ICE state not connected writes the buffer later.    *)
(***************************************************************************)
\* client.onTrack up to SFU.broadcastTracks: the track is recorded and the
\* broadcast starts, with a call of addTrack per other client and track of
\* pendingPublishedTracks; the previous broadcast has returned
OnTrackBroadcast(c, t) ==
    /\ ~panicked
    /\ c \in created
    /\ c \in Publishers
    /\ t \notin delivered
    /\ connState[c] \notin {"new", "closed"}
    /\ \A x \in ClientIDs, u \in TrackPool : addTrackCall[x][u] \in {"none", "returned"}
    /\ delivered' = delivered \cup {t}
    /\ reading' = [reading EXCEPT ![c] = @ \cup {t}]
    /\ State' = [State EXCEPT ![c] = ClientStateActive]
    /\ tracks' = [tracks EXCEPT ![c] = MapPut(@, t.id, t)]
    /\ pendingPublishedTracks' =
            [pendingPublishedTracks EXCEPT ![c] = MapPut(@, TrackKey(t), t)]
    /\ addTrackCall' =
            [x \in ClientIDs |-> [u \in TrackPool |->
                IF x \in clients \ {c} /\ u \in MapValues(pendingPublishedTracks'[c])
                THEN "called"
                ELSE addTrackCall[x][u]]]
    /\ trackPublished' = [trackPublished EXCEPT ![c] =
                            Append(@, DOMAIN pendingPublishedTracks'[c])]
    /\ renegotiateSpawned' = {}
    /\ UNCHANGED <<sfuVars, cancelled, connState, iceState, stopping, stopResult,
                   idleTimer, sigVars>>
    /\ UNCHANGED <<pendingReceivedTracks, publishedTracks, senders, removedTracks>>
    /\ UNCHANGED <<pushVars, endedVars, metaVars, idleVars, removeTrackCall, qualityVars,
                   lockVars>>

\* Client.addTrack up to the test of the ICE connection state: a connected
\* client sets the track, any other call goes on to lock the mutex; the loop
\* of broadcastTracks makes one call after the other
addTrackLoad(c, t) ==
    /\ ~panicked
    /\ addTrackCall[c][t] = "called"
    /\ \A x \in ClientIDs, u \in TrackPool : addTrackCall[x][u] # "waiting"
    /\ IF iceState[c] # "connected"
       THEN /\ addTrackCall' = [addTrackCall EXCEPT ![c][t] = "waiting"]
            /\ SetFan(Fan)
            /\ renegotiateSpawned' = {}
       ELSE \E addErr \in BOOLEAN :
            LET r == setClientTrack(Fan[c], t, addErr)
            IN  /\ addTrackCall' = [addTrackCall EXCEPT ![c][t] = "returned"]
                /\ SetFan([Fan EXCEPT ![c] = r])
                /\ renegotiateSpawned' = IF r.ret THEN {c} ELSE {}
    /\ UNCHANGED <<sfuVars, lifeVars, sigVars>>
    /\ UNCHANGED <<tracks, pendingPublishedTracks, delivered, trackPublished, reading>>
    /\ UNCHANGED <<pushVars, endedVars, metaVars, idleVars, removeTrackCall, qualityVars,
                   lockVars>>

\* Client.addTrack from c.mutex.Lock() on: the track is written to
\* pendingReceivedTracks and the call returns false
addTrackStore(c, t) ==
    /\ ~panicked
    /\ addTrackCall[c][t] = "waiting"
    /\ addTrackCall' = [addTrackCall EXCEPT ![c][t] = "returned"]
    /\ pendingReceivedTracks' =
            [pendingReceivedTracks EXCEPT ![c] = MapPut(@, TrackKey(t), t)]
    /\ renegotiateSpawned' = {}
    /\ UNCHANGED <<sfuVars, lifeVars, sigVars>>
    /\ UNCHANGED <<tracks, pendingPublishedTracks, publishedTracks, senders, delivered,
                   trackPublished, reading, removedTracks>>
    /\ UNCHANGED <<pushVars, endedVars, metaVars, idleVars, removeTrackCall, qualityVars,
                   lockVars>>

NextPending ==
    \E c \in ClientIDs :
        \/ NewClient(c)
        \/ ConnectionStateChange(c, RoomMoves)
        \/ \E t \in TrackPool : OnTrackBroadcast(c, t)
        \/ \E t \in TrackPool : addTrackLoad(c, t)
        \/ \E t \in TrackPool : addTrackStore(c, t)

SpecPending == Init /\ [][NextPending]_vars

\* the Connected case of the handler runs for client c in this step
ConnectedHandled(c) ==
    /\ connState[c] # "connected"
    /\ connState'[c] = "connected"
    /\ State[c] # ClientStateEnded

\* C27: when a subscriber reaches Connected, every track of its
\* pendingReceivedTracks is afterwards forwarded to it with a sender and the
\* buffer is empty; and no track stays in the buffer of a connected subscriber
\* once the addTrack calls on it have returned.
C27_BufferedTracksAdded ==
    [][\A c \in ClientIDs :
        /\ ConnectedHandled(c) =>
             /\ \A t \in MapValues(pendingReceivedTracks[c]) :
                    /\ TrackKey(t) \in DOMAIN publishedTracks'[c]
                    /\ t \in senders'[c]
             /\ pendingReceivedTracks'[c] = EmptyMap
        /\ (/\ connState'[c] = "connected"
            /\ iceState'[c] = "connected"
            /\ \A t \in TrackPool : addTrackCall'[c][t] \in {"none", "returned"})
              => pendingReceivedTracks'[c] = EmptyMap]_vars

\* C28: in a step where a publisher's tracks are broadcast, a renegotiate is
\* started for another client of the room exactly when the broadcast added a
\* track (a sender) to that client, whatever the order of the tracks.
C28_RenegotiateIffTrackAdded ==
    [][\A p \in ClientIDs :
        trackPublished'[p] # trackPublished[p] =>
            \A x \in clients \ {p} :
                x \in renegotiateSpawned' <=> senders'[x] # senders[x]]_vars

(***************************************************************************)
(* The value SFU.removeTrack returns.                                      *)
(***************************************************************************)
\* the clients whose publishedTracks hold the key: the calls of
\* removePublishedTrack that delete something
HadTrack(key) == {x \in clients : key \in DOMAIN publishedTracks[x]}

\* the read loop of a track gets io.EOF: client.removeTrack, then
\* SFU.removeTrack, whose value is kept
ReadEOF(c, t) ==
    /\ ~panicked
    /\ t \in reading[c]
    /\ reading' = [reading EXCEPT ![c] = @ \ {t}]
    /\ tracks' = [tracks EXCEPT ![c] = MapDelete(@, t.id)]
    /\ \E last \in ClientIDs :
        /\ clients # {} => last \in clients
        /\ LET rt == SFU_removeTrack(Fan, clients, connState, t.stream, t.id, last)
           IN  /\ SetFan(rt.fan)
               /\ removeTrackCall' = << [key |-> TrackKey(t),
                                         had |-> HadTrack(TrackKey(t)),
                                         ret |-> rt.ret] >>
    /\ renegotiateSpawned' = {}
    /\ UNCHANGED <<sfuVars, lifeVars, pendingPublishedTracks, delivered, trackPublished,
                   sigVars>>
    /\ UNCHANGED <<pushVars, endedVars, metaVars, idleVars, addTrackCall, qualityVars,
                   lockVars>>

NextRemove ==
    \E c \in ClientIDs :
        \/ NewClient(c)
        \/ ConnectionStateChange(c, RoomMoves)
        \/ ConnectionClosed(c)
        \/ \E t \in TrackPool : RoomOnTrack(c, t)
        \/ \E t \in TrackPool : ReadEOF(c, t)

SpecRemove == Init /\ [][NextRemove]_vars

\* C29: SFU.removeTrack returns true exactly when at least one client had the
\* track in its publishedTracks, whichever client the loop visits last and
\* whether or not a peer connection is closed.
C29_RemoveTrackReturnsRemoved ==
    \A i \in 1..Len(removeTrackCall) :
        removeTrackCall[i].ret <=> removeTrackCall[i].had # {}

\* the timestamp the reader of layer l got for the packet of a frame, as
\* LayerPacket stamps it
ReceivedTimestamp(l, frame) == Add32(remoteTrackBaseTS[l], U32(frame * TsStep))

\* C30: every packet a simulcast client track writes from layer L carries the
\* timestamp baseTS + (received timestamp - base timestamp of L) modulo 2^32:
\* the base of the layer is subtracted once.
C30_TimestampRebasedOnce ==
    \A i \in 1..Len(written) :
        LET l == written[i].quality
        IN  written[i].rtp.Timestamp =
                Add32(baseTS, Sub32(ReceivedTimestamp(l, written[i].rtp.frame),
                                    remoteTrackBaseTS[l]))

(***************************************************************************)
(* The quality a simulcast client track gets from the bandwidth of its     *)
(* client.  Bitrates are uint32, kept as their two 16 bit halves.          *)
(***************************************************************************)
MaxOtherTracks == 2
TrackKinds == {"audio", "video", "simulcast"}

\* the bitrates the SFU is configured with, in bit/s
BitratesConfigs ==
    { [Audio |-> U32(48000), Video |-> U32(700000),
       VideoHigh |-> U32(1200000), VideoMid |-> U32(500000)],
      [Audio |-> U32(64000), Video |-> U32(1000000),
       VideoHigh |-> U32(2000000), VideoMid |-> U32(800000)] }

\* the bandwidth estimates of the subscriber, in bit/s
AvailableBandwidths ==
    {U32(0), U32(600000), U32(1200000), U32(2000000), U32(3000000)}

\* uint32(n) * a and a / uint32(n) of Go, n being a small count; a > b
Mul32(n, a) ==
    LET low == n * a[2]
    IN  <<(n * a[1] + (low \div Uint16)) % Uint16, low % Uint16>>
Div32(a, n) ==
    LET rest == a[1] % n
    IN  <<a[1] \div n, (rest * Uint16 + a[2]) \div n>>
Gt32(a, b) == a[1] > b[1] \/ (a[1] = b[1] /\ a[2] > b[2])
Lt32(a, b) == Gt32(b, a)

\* the process is gone after the runtime panic of a division by zero
QualityPanicked == qualityCall # <<>> /\ qualityCall[1].ret = "panic"

\* the SFU gets its bitrates when it is made
SetBitrates(cfg) ==
    /\ bitratesConfig = <<>>
    /\ bitratesConfig' = <<cfg>>
    /\ UNCHANGED <<otherTracks, qualityCall, clientTrack>>
    /\ UNCHANGED <<roomVars, pushVars, endedVars, metaVars, idleVars, callVars, lockVars>>

\* another client publishes a track of a kind: the client gets a client
\* track for it, a SimulcastClientTrack for a simulcast one
OtherTrackAdded(kind) ==
    /\ ~QualityPanicked
    /\ otherTracks[kind] < MaxOtherTracks
    /\ otherTracks' = [otherTracks EXCEPT ![kind] = @ + 1]
    /\ clientTrack' = IF kind = "simulcast" THEN "made" ELSE clientTrack
    /\ UNCHANGED <<bitratesConfig, qualityCall>>
    /\ UNCHANGED <<roomVars, pushVars, endedVars, metaVars, idleVars, callVars, lockVars>>

\* a track of another client ends and leaves the tracks of that client
OtherTrackRemoved(kind) ==
    /\ ~QualityPanicked
    /\ otherTracks[kind] > 0
    /\ otherTracks' = [otherTracks EXCEPT ![kind] = @ - 1]
    /\ UNCHANGED <<bitratesConfig, qualityCall, clientTrack>>
    /\ UNCHANGED <<roomVars, pushVars, endedVars, metaVars, idleVars, callVars, lockVars>>

\* leftBandwidth of getDistributedQuality
leftBandwidth(availableBandwidth, cfg, audioTracksCount, videoTracksCount) ==
    Sub32(Sub32(availableBandwidth, Mul32(audioTracksCount, cfg.Audio)),
          Mul32(videoTracksCount, cfg.Video))

\* the mapping of the distributed bandwidth to a quality
QualityOf(distributedBandwidth, cfg) ==
    IF Gt32(distributedBandwidth, cfg.VideoHigh) THEN "high"
    ELSE IF Lt32(distributedBandwidth, cfg.VideoHigh)
            /\ Gt32(distributedBandwidth, cfg.VideoMid) THEN "mid"
    ELSE "low"

\* SimulcastClientTrack.getDistributedQuality: the call with its inputs and
\* what it returned; the division by a zero count panics
getDistributedQuality(availableBandwidth) ==
    /\ ~QualityPanicked
    /\ bitratesConfig # <<>>
    /\ clientTrack = "made"
    /\ LET cfg == bitratesConfig[1]
           left == leftBandwidth(availableBandwidth, cfg,
                                 otherTracks.audio, otherTracks.video)
           call == [availableBandwidth |-> availableBandwidth,
                    audio |-> otherTracks.audio,
                    video |-> otherTracks.video,
                    simulcast |-> otherTracks.simulcast,
                    left |-> left]
       IN  qualityCall' =
             IF otherTracks.simulcast = 0
             THEN << call @@ [share |-> <<>>, ret |-> "panic"] >>
             ELSE LET share == Div32(left, otherTracks.simulcast)
                  IN  << call @@ [share |-> share, ret |-> QualityOf(share, cfg)] >>
    /\ UNCHANGED <<bitratesConfig, otherTracks, clientTrack>>
    /\ UNCHANGED <<roomVars, pushVars, endedVars, metaVars, idleVars, callVars, lockVars>>

NextQuality ==
    \/ \E cfg \in BitratesConfigs : SetBitrates(cfg)
    \/ \E kind \in TrackKinds : OtherTrackAdded(kind)
    \/ \E kind \in TrackKinds : OtherTrackRemoved(kind)
    \/ \E bw \in AvailableBandwidths : getDistributedQuality(bw)

SpecQuality == Init /\ [][NextQuality]_vars

\* C31: the quality returned follows the thresholds for every share, the
\* boundaries included: above VideoHigh it is high, else above VideoMid it is
\* mid (a share equal to VideoHigh too), else low.
C31_QualityFollowsThresholds ==
    \A i \in 1..Len(qualityCall) :
        LET q == qualityCall[i]
            cfg == bitratesConfig[1]
        IN  q.ret # "panic" =>
                q.ret = IF Gt32(q.share, cfg.VideoHigh) THEN "high"
                        ELSE IF Gt32(q.share, cfg.VideoMid) THEN "mid"
                        ELSE "low"

\* C32: with no simulcast track among the other clients the call returns,
\* and the share it used is the left-over bandwidth (left / max(0, 1)).
C32_NoSimulcastTrackNoFailure ==
    \A i \in 1..Len(qualityCall) :
        qualityCall[i].simulcast = 0 =>
            /\ qualityCall[i].ret # "panic"
            /\ qualityCall[i].share = qualityCall[i].left

\* a uint32 below 2^31 as an integer
Int32(a) == a[1] * Uint16 + a[2]

\* C33: when the audio and video budgets of the other clients' tracks exceed
\* the available bandwidth, the quality returned is not high.
C33_OverBudgetNeverHigh ==
    \A i \in 1..Len(qualityCall) :
        LET q == qualityCall[i]
            cfg == bitratesConfig[1]
        IN  (q.audio * Int32(cfg.Audio) + q.video * Int32(cfg.Video)
                > Int32(q.availableBandwidth))
            => q.ret # "high"

(***************************************************************************)
(* Metadata.mu.  One goroutine calls Set and Delete; the callbacks that    *)
(* onChanged runs are code of the caller and may call the Metadata again,  *)
(* on the same goroutine.  metaStack holds the calls the goroutine is in:  *)
(*   [op, key, value, at : where the call is, idx : callbacks run so far]  *)
(***************************************************************************)
\* the methods of the Metadata a callback may call
ReentrantCalls == {"Get", "Set", "ForEach", "OnChanged", "Unsubscribe"}
\* what a callback does: nothing with the Metadata, or one of the calls
CallbackBodies == {"return"} \cup ReentrantCalls

\* the call the goroutine is in, and the stack with that call replaced
TopCall == metaStack[Len(metaStack)]
WithTop(f) == [metaStack EXCEPT ![Len(metaStack)] = f]
Return == SubSeq(metaStack, 1, Len(metaStack) - 1)

\* Metadata.OnChanged, called while no Set or Delete is running
RegisterCallback(i) ==
    /\ metaStack = <<>>
    /\ mu = "unlocked"
    /\ OnChanged(i)

\* Metadata.Set or Metadata.Delete is called: the call is at its m.mu.Lock()
metaCall(op, key, value) ==
    /\ metaStack = <<>>
    /\ metaStack' = << [op |-> op, key |-> key, value |-> value, at |-> "Lock", idx |-> 0] >>
    /\ UNCHANGED <<mu, metaVars>>
    /\ UNCHANGED <<roomVars, pushVars, endedVars, idleVars, callVars, qualityVars>>

\* m.mu.Lock() or m.mu.RLock() of the call the goroutine is in, at its start
\* or at the start of onChanged: sync.RWMutex gives the lock only when no
\* writer holds it, and is not reentrant
muLock ==
    /\ metaStack # <<>>
    /\ TopCall.at \in {"Lock", "onChanged"}
    /\ mu = "unlocked"
    /\ mu' = IF TopCall.at = "Lock" /\ TopCall.op \in {"Get", "ForEach"}
             THEN "rlocked" ELSE "locked"
    /\ metaStack' = WithTop([TopCall EXCEPT !.at = IF @ = "Lock" THEN "locked"
                                                  ELSE "callbacks"])
    /\ UNCHANGED metaVars
    /\ UNCHANGED <<roomVars, pushVars, endedVars, idleVars, callVars, qualityVars>>

\* Metadata.Set and Metadata.Delete between Lock and Unlock: the map is
\* written; Delete of a key that is not set returns, the others go on to
\* onChanged
metaLocked ==
    /\ metaStack # <<>>
    /\ TopCall.at = "locked"
    /\ TopCall.op \in {"Set", "Delete"}
    /\ mu' = "unlocked"
    /\ IF TopCall.op = "Set"
       THEN /\ meta' = MapPut(meta, TopCall.key, TopCall.value)
            /\ metaStack' = WithTop([TopCall EXCEPT !.at = "onChanged"])
       ELSE IF TopCall.key \notin DOMAIN meta
       THEN /\ UNCHANGED meta
            /\ metaStack' = Return
       ELSE /\ meta' = MapDelete(meta, TopCall.key)
            /\ metaStack' = WithTop([TopCall EXCEPT !.at = "onChanged"])
    /\ UNCHANGED <<onChangedCallbacks, subscriptions, unsubscribed, notified, metaCalls,
                   metaPanicked>>
    /\ UNCHANGED <<roomVars, pushVars, endedVars, idleVars, callVars, qualityVars>>

\* the loop of Metadata.onChanged calls the next callback, with the lock
\* held: the callback returns, or it calls a method of the Metadata
callbackRun(body) ==
    /\ metaStack # <<>>
    /\ TopCall.at = "callbacks"
    /\ TopCall.idx < Len(onChangedCallbacks)
    /\ LET next == WithTop([TopCall EXCEPT !.idx = @ + 1])
       IN  metaStack' =
             IF body = "return" THEN next
             ELSE Append(next, [op |-> body, key |-> TopCall.key, value |-> TopCall.value,
                                at |-> "Lock", idx |-> 0])
    /\ UNCHANGED <<mu, metaVars>>
    /\ UNCHANGED <<roomVars, pushVars, endedVars, idleVars, callVars, qualityVars>>

\* Metadata.onChanged after its loop: the deferred Unlock, and Set or Delete
\* returns
onChangedReturn ==
    /\ metaStack # <<>>
    /\ TopCall.at = "callbacks"
    /\ TopCall.idx = Len(onChangedCallbacks)
    /\ mu' = "unlocked"
    /\ metaStack' = Return
    /\ UNCHANGED metaVars
    /\ UNCHANGED <<roomVars, pushVars, endedVars, idleVars, callVars, qualityVars>>

\* a step of the call the goroutine is in
metaStep ==
    \/ muLock
    \/ metaLocked
    \/ \E body \in CallbackBodies : callbackRun(body)
    \/ onChangedReturn

NextReenter ==
    \/ \E i \in 1..MaxSubscriptions : RegisterCallback(i)
    \/ \E key \in MetaKeys, value \in MetaValues : metaCall("Set", key, value)
    \/ \E key \in MetaKeys : metaCall("Delete", key, "nil")
    \/ muLock
    \/ metaLocked
    \/ \E body \in CallbackBodies : callbackRun(body)
    \/ onChangedReturn

SpecReenter == Init /\ [][NextReenter]_vars

\* C34: a call of Set or Delete that has started can always take its next
\* step, also inside a callback that calls the Metadata again: it is never
\* left waiting for a lock its own goroutine holds.
C34_NotifyNeverDeadlocks ==
    metaStack # <<>> => ENABLED metaStep
=============================================================================
